---------------------------- MODULE Spec2Model ----------------------------
(***************************************************************************)
(* steam-ark-join-control: the group poller, the profile resolver and the  *)
(* ACL updater (service/__main__.py) with the two SQLite stores they own   *)
(* (service/acl/sqlite.py, service/steam/cache.py).                        *)
(*                                                                         *)
(* Time is counted in ticks, TicksPerSec to the second.  `clock` is UTC;   *)
(* Python's datetime.now() is the naive local time clock + tz, SQLite's    *)
(* CURRENT_TIMESTAMP is UTC cut to whole seconds.  Within a run the clock *)
(* does not go back and tz is fixed; a store file left by an earlier run   *)
(* may have been written under a local clock that was ahead.               *)
(***************************************************************************)
EXTENDS Integers, Sequences, FiniteSets, TLC

VARIABLES
    clock,      \* UTC wall clock, in ticks
    tz,         \* offset of local time from UTC, in ticks
    acl,        \* table allowed_users: steam_id -> [name, added_on, last_seen]
    cache,      \* table profile_cache: profile_url ->
                \*   [steam_id, name, created_on, last_seen, ttl_secs]
    ret,        \* the last store call made through the API: [op, key, name, ts, res]
    ncalls,     \* ghost: cache calls made through the API so far
    accessed,   \* ghost: profile_url -> UTC time of the last put or get hit
    scen,       \* ghost: how far the last cache calls follow Scenario D
    acl_file,   \* the ACL database file: "missing", "created" (no table yet), "ready"
    q_resolved_profiles,    \* Queue(1) of resolved batches
    u_pc,       \* p_acl_updater: where it is
    u_todo,     \* p_acl_updater: what the loop it is in has left to visit
    u_profiles, \* p_acl_updater: profiles
    u_now,      \* p_acl_updater: now
    u_batch,    \* ghost: the batch as p_acl_updater received it
    u_tag,      \* ghost: the request number of the snapshot that batch came from
    u_cycles,   \* ghost: the cycles p_acl_updater has completed
    q_group_updates,    \* Queue(1) of roster snapshots
    p_pc,       \* p_group_poller: where it is
    profile_urls,   \* p_group_poller: profile_urls
    num_requests,   \* p_group_poller: num_requests
    p_log,      \* p_group_poller: its last log line
    lost,       \* ghost: request numbers of the snapshots the poller dropped
    r_pc,       \* p_resolver: where it is
    r_profiles, \* p_resolver: profiles
    missed_profile_urls,    \* p_resolver: missed_profile_urls
    r_tag,      \* ghost: the request number of the snapshot p_resolver works on
    r_log,      \* p_resolver: its last log line
    failed,     \* ghost: request numbers of the snapshots that failed to resolve
    conn,       \* API handles: handle -> TRUE while its connection is open
    pool,       \* resolver_pool: the profile urls its workers run resolve_one for
                \*   -> whether the worker's api.profile call is in flight
    unresolvable    \* Steam: the profile urls api.profile raises SteamApiError
                    \*   for at every call

timeVars  == <<clock, tz>>
cacheVars == <<cache, ncalls, accessed, scen>>
updVars   == <<acl_file, q_resolved_profiles, u_pc, u_todo, u_profiles, u_now,
               u_batch, u_tag, u_cycles>>
pollVars  == <<p_pc, profile_urls, num_requests, p_log, lost>>
resVars   == <<r_pc, r_profiles, missed_profile_urls, r_tag, r_log,
               failed>>
pipeVars  == <<q_group_updates, pollVars, resVars>>
vars == <<clock, tz, acl, cache, ret, ncalls, accessed, scen,
          acl_file, q_resolved_profiles, u_pc, u_todo, u_profiles, u_now,
          u_batch, u_tag, u_cycles, q_group_updates,
          p_pc, profile_urls, num_requests, p_log, lost,
          r_pc, r_profiles, missed_profile_urls, r_tag, r_log, failed, conn,
          pool, unresolvable>>

None == "None"          \* Python's None where a string is expected
NoTime == 0 - 1         \* Python's None where a datetime is expected

(***************************************************************************)
(* Bounds of the model                                                     *)
(***************************************************************************)
TicksPerSec == 2
MaxTime == 2
MaxCalls == 4
MaxCycles == 2

Epoch == TicksPerSec * 10000
TzOffsets == {0 - 3600 * TicksPerSec, 0, 3600 * TicksPerSec}

(***************************************************************************)
(* Universe                                                                *)
(***************************************************************************)
SteamIDs == {"a1", "a2", "a3", "a4"}
Urls     == {"h1", "h2", "h3"}
Names    == {"n1", "n2", "n3", "Bob", "Eve", "Mal"}

EmptyTable == [k \in {} |-> None]
Restrict(f, S) == [k \in S |-> f[k]]
Extend(f, k, v) == [x \in DOMAIN f \cup {k} |-> IF x = k THEN v ELSE f[x]]

\* multiprocessing.Queue: put at the back, get from the front
QueuePut(q, item) == Append(q, item)
QueueFront(q) == Head(q)
\* a get that leaves the item on the queue
QueueRestKeep(q) == q
QueueRest(q) == Tail(q)

\* the handles the API specifications work through
Handles == {"cache", "acl1", "acl2"}
AllOpen == [h \in Handles |-> TRUE]

\* Pool(G_NUM_RESOLVER_PROCESSES, init_resolve_one_worker): every worker idle
G_NUM_RESOLVER_PROCESSES == 4
IdlePool == [url \in {} |-> FALSE]

NoCall == [op |-> "none", key |-> None, name |-> None, ts |-> NoTime, res |-> FALSE]

(***************************************************************************)
(* Timestamps as the stores hold them.  sqlite3 adapts a datetime to the   *)
(* text 'YYYY-MM-DD HH:MM:SS[.ffffff]' (isoformat(' '): no fraction when   *)
(* it is zero) and SQLite compares the texts.  A text is modelled as the   *)
(* sequence <<seconds>> or <<seconds, fraction>>.                          *)
(***************************************************************************)
AdaptDatetime(t) ==
    IF t % TicksPerSec = 0 THEN <<t \div TicksPerSec>>
                           ELSE <<t \div TicksPerSec, t % TicksPerSec>>

ConvertTimestamp(txt) ==
    IF Len(txt) = 1 THEN txt[1] * TicksPerSec ELSE txt[1] * TicksPerSec + txt[2]

\* a comparison of the whole seconds only
TextLessSeconds(a, b) == a[1] < b[1]

\* SQLite's text comparison a < b (memcmp, a proper prefix sorts first)
TextLess(a, b) ==
    \/ a[1] < b[1]
    \/ /\ a[1] = b[1]
       /\ \/ Len(a) < Len(b)
          \/ Len(a) = 2 /\ Len(b) = 2 /\ a[2] < b[2]

LocalNow == clock + tz

(***************************************************************************)
(* SqliteAccessControlList                                                 *)
(***************************************************************************)
AclRow(name, added_on, last_seen) ==
    [name |-> name, added_on |-> AdaptDatetime(added_on),
     last_seen |-> AdaptDatetime(last_seen)]

\* INSERT OR IGNORE on the primary key steam_id
InsertOrReplace(tbl, steam_id, row) ==
    [tbl |-> Extend(tbl, steam_id, row), rowcount |-> 1]

InsertOrIgnore(tbl, steam_id, row) ==
    IF steam_id \in DOMAIN tbl
    THEN [tbl |-> tbl, rowcount |-> 0]
    ELSE [tbl |-> Extend(tbl, steam_id, row), rowcount |-> 1]

\* add(): the defaults of added_on and last_seen, then the insert
AclAdd(tbl, steam_id, name, added_on, last_seen, now) ==
    LET ao == IF added_on = NoTime THEN now ELSE added_on
        ls == IF last_seen = NoTime \/ last_seen < ao THEN ao ELSE last_seen
        ins == InsertOrIgnore(tbl, steam_id, AclRow(name, ao, ls))
    IN  [tbl |-> ins.tbl, res |-> ins.rowcount > 0]

\* a DELETE without its WHERE clause
AclRemoveAll(tbl, steam_id) ==
    [tbl |-> EmptyTable, res |-> tbl # EmptyTable]

AclRemove(tbl, steam_id) ==
    IF steam_id \in DOMAIN tbl
    THEN [tbl |-> Restrict(tbl, DOMAIN tbl \ {steam_id}), res |-> TRUE]
    ELSE [tbl |-> tbl, res |-> FALSE]

AclUpdateLastSeen(tbl, steam_id, ts, now) ==
    LET t == IF ts = NoTime THEN now ELSE ts
    IN  IF steam_id \in DOMAIN tbl
        THEN [tbl |-> [tbl EXCEPT ![steam_id].last_seen = AdaptDatetime(t)],
              res |-> TRUE]
        ELSE [tbl |-> tbl, res |-> FALSE]

\* a WHERE clause last_seen <= ?
ExpireWhereOrEqual(last_seen, min_last_seen) ==
    ~ TextLess(min_last_seen, last_seen)

\* the WHERE clause of expire(): last_seen < ?
ExpireWhere(last_seen, min_last_seen) ==
    TextLess(last_seen, min_last_seen)

AclExpire(tbl, min_last_seen) ==
    LET gone == {k \in DOMAIN tbl :
                    ExpireWhere(tbl[k].last_seen, AdaptDatetime(min_last_seen))}
    IN  [tbl |-> Restrict(tbl, DOMAIN tbl \ gone), res |-> Cardinality(gone)]

\* find(): the AclEntry, or None (found = FALSE)
AclFind(tbl, steam_id) ==
    IF steam_id \in DOMAIN tbl
    THEN [found |-> TRUE, steam_id |-> steam_id, name |-> tbl[steam_id].name,
          added_on |-> ConvertTimestamp(tbl[steam_id].added_on),
          last_seen |-> ConvertTimestamp(tbl[steam_id].last_seen)]
    ELSE [found |-> FALSE]

AclLen(tbl) == Cardinality(DOMAIN tbl)

(***************************************************************************)
(* SqliteSteamProfileCache                                                 *)
(***************************************************************************)
\* SQLite's CURRENT_TIMESTAMP: UTC, 'YYYY-MM-DD HH:MM:SS'
CurrentTimestamp(utc) == <<utc \div TicksPerSec>>

\* the modifier '+' || ttl_secs || ' minutes'
DateTimePlusMinutes(txt, ttl_secs) ==
    <<(ConvertTimestamp(txt) + 60 * ttl_secs) \div TicksPerSec>>

\* SQLite's DATETIME(last_seen, '+' || ttl_secs || ' seconds'): the text is
\* parsed, the seconds are added, the result is printed without its fraction
DateTimePlus(txt, ttl_secs) == <<(ConvertTimestamp(txt) + ttl_secs) \div TicksPerSec>>

SteamUserProfile(url, name, steam_id) ==
    [url |-> url, name |-> name, steam_id |-> steam_id]

\* __update_seen(): last_seen = datetime.now(), the local time
UpdateSeen(tbl, profile_url, utc, offset) ==
    [tbl EXCEPT ![profile_url].last_seen = AdaptDatetime(utc + offset)]

\* a get that leaves last_seen as it is
CacheGetNoTouch(tbl, profile_url, utc, offset) ==
    IF profile_url \notin DOMAIN tbl
    THEN [tbl |-> tbl, hit |-> FALSE, profile |-> SteamUserProfile(None, None, None)]
    ELSE [tbl |-> tbl,
          hit |-> TRUE,
          profile |-> SteamUserProfile(profile_url, tbl[profile_url].name,
                                       tbl[profile_url].steam_id)]

\* get(): the row if there is one (its age is not looked at), last_seen renewed
CacheGet(tbl, profile_url, utc, offset) ==
    IF profile_url \notin DOMAIN tbl
    THEN [tbl |-> tbl, hit |-> FALSE, profile |-> SteamUserProfile(None, None, None)]
    ELSE [tbl |-> UpdateSeen(tbl, profile_url, utc, offset),
          hit |-> TRUE,
          profile |-> SteamUserProfile(profile_url, tbl[profile_url].name,
                                       tbl[profile_url].steam_id)]

\* put(): REPLACE INTO; created_on and last_seen take their column default
CachePut(tbl, profile_url, profile, ttl, utc) ==
    Extend(tbl, profile_url,
           [steam_id   |-> profile.steam_id,
            name       |-> profile.name,
            created_on |-> CurrentTimestamp(utc),
            last_seen  |-> CurrentTimestamp(utc),
            ttl_secs   |-> ttl])

\* the WHERE clause of expire()
CacheExpireWhere(row, utc) ==
    ~ TextLess(CurrentTimestamp(utc), DateTimePlus(row.last_seen, row.ttl_secs))

CacheExpire(tbl, utc) ==
    LET gone == {k \in DOMAIN tbl : CacheExpireWhere(tbl[k], utc)}
    IN  [tbl |-> Restrict(tbl, DOMAIN tbl \ gone), res |-> Cardinality(gone)]

CacheLen(tbl) == Cardinality(DOMAIN tbl)

(***************************************************************************)
(* The Access List Store driven through its API (as test/test_sqlite.py    *)
(* does): any call, any arguments, any time between two calls.             *)
(***************************************************************************)
ApiIds   == {"a1", "a2"}
ApiNames == {"n1", "n2"}
ApiTimes == {Epoch + k : k \in 0..MaxTime}

\* p_acl_updater not started
UpdaterIdle ==
    /\ acl_file = "ready"
    /\ q_resolved_profiles = <<>>
    /\ u_pc = "start"
    /\ u_todo = {}
    /\ u_profiles = EmptyTable
    /\ u_now = NoTime
    /\ u_batch = EmptyTable
    /\ u_tag = 0
    /\ u_cycles = 0

\* p_group_poller and p_resolver not started
PipeIdle ==
    /\ q_group_updates = <<>>
    /\ p_pc = "fetch"
    /\ profile_urls = {}
    /\ num_requests = 0
    /\ p_log = "starting..."
    /\ lost = {}
    /\ r_pc = "get"
    /\ r_profiles = EmptyTable
    /\ missed_profile_urls = {}
    /\ r_tag = 0
    /\ r_log = "starting..."
    /\ failed = {}

NoScenario == [stage |-> 0, url |-> None, t0 |-> NoTime, hit |-> FALSE]

InitAcl ==
    /\ conn = AllOpen
    /\ pool = IdlePool
    /\ unresolvable = {}
    /\ clock = Epoch
    /\ tz = 0
    /\ acl = EmptyTable
    /\ ret = NoCall
    /\ cache = EmptyTable
    /\ ncalls = 0
    /\ accessed = EmptyTable
    /\ scen = NoScenario
    /\ UpdaterIdle
    /\ PipeIdle

\* the time that passes before a call that reads the clock
Elapse(S) ==
    \E d \in S :
        /\ clock + d <= Epoch + MaxTime
        /\ clock' = clock + d

ApiAdd ==
    \E id \in ApiIds, n \in ApiNames,
       ao \in ApiTimes \cup {NoTime}, ls \in ApiTimes \cup {NoTime} :
        /\ Elapse(IF ao = NoTime THEN {0, 1} ELSE {0})
        /\ LET r == AclAdd(acl, id, n, ao, ls, clock' + tz)
           IN  /\ acl' = r.tbl
               /\ ret' = [op |-> "add", key |-> id, name |-> n, ts |-> NoTime,
                          res |-> r.res]
        /\ UNCHANGED <<tz, conn, unresolvable, pool, cacheVars, updVars, pipeVars>>

ApiRemove ==
    \E id \in ApiIds :
        /\ Elapse({0})
        /\ LET r == AclRemove(acl, id)
           IN  /\ acl' = r.tbl
               /\ ret' = [op |-> "remove", key |-> id, name |-> None,
                          ts |-> NoTime, res |-> r.res]
        /\ UNCHANGED <<tz, conn, unresolvable, pool, cacheVars, updVars, pipeVars>>

ApiUpdateLastSeen ==
    \E id \in ApiIds, ts \in ApiTimes \cup {NoTime} :
        /\ Elapse(IF ts = NoTime THEN {0, 1} ELSE {0})
        /\ LET r == AclUpdateLastSeen(acl, id, ts, clock' + tz)
           IN  /\ acl' = r.tbl
               /\ ret' = [op |-> "update_last_seen", key |-> id, name |-> None,
                          ts |-> NoTime, res |-> r.res]
        /\ UNCHANGED <<tz, conn, unresolvable, pool, cacheVars, updVars, pipeVars>>

ApiExpire ==
    \E t \in ApiTimes :
        /\ Elapse({0})
        /\ LET r == AclExpire(acl, t)
           IN  /\ acl' = r.tbl
               /\ ret' = [op |-> "expire", key |-> None, name |-> None,
                          ts |-> t, res |-> r.res]
        /\ UNCHANGED <<tz, conn, unresolvable, pool, cacheVars, updVars, pipeVars>>

ApiFind ==
    \E id \in ApiIds :
        /\ Elapse({0})
        /\ ret' = [op |-> "find", key |-> id, name |-> None, ts |-> NoTime,
                   res |-> AclFind(acl, id).found]
        /\ UNCHANGED <<tz, conn, unresolvable, pool, acl, cacheVars, updVars, pipeVars>>

NextAcl ==
    \/ ApiAdd
    \/ ApiRemove
    \/ ApiUpdateLastSeen
    \/ ApiExpire
    \/ ApiFind

SpecAcl == InitAcl /\ [][NextAcl]_vars

(***************************************************************************)
(* C6: expire(now) deletes exactly the entries with last_seen < now, keeps *)
(* every entry with last_seen >= now as it was, and returns the number of  *)
(* entries it deleted.  Times are compared as datetimes; the store         *)
(* compares the stored texts.                                               *)
(***************************************************************************)
C6_ExpireExact ==
    [][ret'.op = "expire" =>
        LET stale == {k \in DOMAIN acl :
                        ConvertTimestamp(acl[k].last_seen) < ret'.ts}
        IN  /\ DOMAIN acl' = DOMAIN acl \ stale
            /\ \A k \in DOMAIN acl' : acl'[k] = acl[k]
            /\ ret'.res = Cardinality(stale)]_vars

\* an expire that deleted an entry and kept another
C6_Witness ==
    /\ ret.op = "expire"
    /\ ret.res >= 1
    /\ acl # EmptyTable

(***************************************************************************)
(* C7: add returns True and creates the entry iff no entry with that       *)
(* steam_id exists; on an existing steam_id (same or different name) it    *)
(* returns False and the table, name, added_on and last_seen of the entry  *)
(* and the number of entries included, is unchanged.                       *)
(***************************************************************************)
C7_IdempotentAdd ==
    [][ret'.op = "add" =>
        LET id == ret'.key
        IN  /\ ret'.res = (id \notin DOMAIN acl)
            /\ id \in DOMAIN acl =>
                    /\ acl' = acl
                    /\ AclLen(acl') = AclLen(acl)
            /\ id \notin DOMAIN acl =>
                    /\ DOMAIN acl' = DOMAIN acl \cup {id}
                    /\ acl'[id].name = ret'.name
                    /\ \A k \in DOMAIN acl : acl'[k] = acl[k]]_vars

\* an add of an existing steam_id under another name, refused
C7_Witness ==
    /\ ret.op = "add"
    /\ ret.res = FALSE
    /\ ret.key \in DOMAIN acl
    /\ acl[ret.key].name # ret.name

(***************************************************************************)
(* The Identity Cache driven through its API (as test/test_cache.py does): *)
(* at most MaxCalls calls, any time in Deltas between two calls, in any    *)
(* time zone.                                                              *)
(***************************************************************************)
ApiUrls == {"h1", "h2"}
Deltas  == {0, 1, 30}
Ttls    == {1, 50}

\* what the Directory Service resolves a profile URL to
Directory(url) ==
    CASE url = "h1" -> SteamUserProfile(url, "n1", "a1")
      [] url = "h2" -> SteamUserProfile(url, "n2", "a2")
      [] url = "h3" -> SteamUserProfile(url, "n3", "a3")
      [] url = "h4" -> SteamUserProfile(url, "n4", "a4")
      [] url = "h5" -> SteamUserProfile(url, "n5", "a5")

InitCache ==
    /\ conn = AllOpen
    /\ pool = IdlePool
    /\ unresolvable = {}
    /\ clock \in {Epoch, Epoch + 1}
    /\ tz \in TzOffsets
    /\ acl = EmptyTable
    /\ ret = NoCall
    /\ cache = EmptyTable
    /\ ncalls = 0
    /\ accessed = EmptyTable
    /\ scen = NoScenario
    /\ UpdaterIdle
    /\ PipeIdle

\* Scenario D, followed call by call: 1 the put with ttl 50 at t0, 2 the get at
\* t0 + 30, 3 the sweep at t0 + 60, 4 the get after it; 5 the sweep at t0 + 60
\* with no get of the entry since the put, 6 the get after that; 0 anything
\* else.  hit: what the scenario's last get returned.  A get of another
\* profile_url does not touch the entry.
ScenarioStep(op, url, ttl, now, hit) ==
    CASE op = "cache.put" /\ ttl = 50 /\ url \notin DOMAIN cache ->
            [stage |-> 1, url |-> url, t0 |-> now, hit |-> FALSE]
      [] op = "cache.get" /\ scen.stage = 1 /\ url = scen.url /\ now = scen.t0 + 30 ->
            [scen EXCEPT !.stage = 2, !.hit = hit]
      [] op = "cache.expire" /\ scen.stage = 2 /\ now = scen.t0 + 60 ->
            [scen EXCEPT !.stage = 3]
      [] op = "cache.get" /\ scen.stage = 3 /\ url = scen.url ->
            [scen EXCEPT !.stage = 4, !.hit = hit]
      [] op = "cache.expire" /\ scen.stage = 1 /\ now = scen.t0 + 60 ->
            [scen EXCEPT !.stage = 5]
      [] op = "cache.get" /\ scen.stage = 5 /\ url = scen.url ->
            [scen EXCEPT !.stage = 6, !.hit = hit]
      [] op = "cache.get" /\ scen.stage # 0 /\ url # scen.url -> scen
      [] OTHER -> NoScenario

Call(S) ==
    /\ ncalls < MaxCalls
    /\ ncalls' = ncalls + 1
    /\ \E d \in S : clock' = clock + d
    /\ UNCHANGED <<tz, conn, unresolvable, pool, acl, updVars, pipeVars>>

ApiCachePut ==
    \E url \in ApiUrls, ttl \in Ttls :
        /\ Call(Deltas)
        /\ cache' = CachePut(cache, url, Directory(url), ttl, clock')
        /\ accessed' = Extend(accessed, url, clock')
        /\ scen' = ScenarioStep("cache.put", url, ttl, clock', FALSE)
        /\ ret' = [op |-> "cache.put", key |-> url, name |-> None, ts |-> NoTime,
                   res |-> TRUE]

ApiCacheGet ==
    \E url \in ApiUrls :
        /\ Call(Deltas)
        /\ LET r == CacheGet(cache, url, clock', tz)
           IN  /\ cache' = r.tbl
               /\ accessed' = IF r.hit THEN Extend(accessed, url, clock')
                                       ELSE accessed
               /\ ret' = [op |-> "cache.get", key |-> url,
                          name |-> r.profile.steam_id, ts |-> NoTime,
                          res |-> r.hit]
        /\ scen' = ScenarioStep("cache.get", url, 0, clock',
                                 CacheGet(cache, url, clock', tz).hit)

ApiCacheExpire ==
    /\ Call(Deltas)
    /\ LET r == CacheExpire(cache, clock')
       IN  /\ cache' = r.tbl
           /\ accessed' = Restrict(accessed, DOMAIN r.tbl)
           /\ ret' = [op |-> "cache.expire", key |-> None, name |-> None,
                      ts |-> NoTime, res |-> r.res]
    /\ scen' = ScenarioStep("cache.expire", None, 0, clock', FALSE)

NextCache ==
    \/ ApiCachePut
    \/ ApiCacheGet
    \/ ApiCacheExpire

SpecCache == InitCache /\ [][NextCache]_vars

(***************************************************************************)
(* C8: sliding TTL.  For an entry put with ttl T: a get less than T after  *)
(* its last access (put or get) returns the cached identity, and that get  *)
(* is then the last access; an expire sweep run at least T after the last  *)
(* access removes the entry.                                                *)
(***************************************************************************)
C8_SlidingTtl ==
    [][/\ \A url \in DOMAIN cache :
            (ret'.op = "cache.get" /\ ret'.key = url
                /\ clock' < accessed[url] + cache[url].ttl_secs)
            => /\ ret'.res = TRUE
               /\ ret'.name = cache[url].steam_id
               /\ url \in DOMAIN cache'
       /\ \A url \in DOMAIN cache :
            (ret'.op = "cache.expire"
                /\ clock' >= accessed[url] + cache[url].ttl_secs)
            => url \notin DOMAIN cache']_vars

(***************************************************************************)
(* C9: Scenario D as stated: put at time 0 with ttl 50, the get at time 30 *)
(* is a hit, the sweep at time 60 removes the entry, the get after that    *)
(* sweep is a miss.                                                         *)
(***************************************************************************)
C9_ScenarioD_Original ==
    /\ scen.stage = 2 => scen.hit
    /\ scen.stage = 3 => scen.url \notin DOMAIN cache
    /\ scen.stage = 4 => ~ scen.hit

(***************************************************************************)
(* C9 as amended: put at time 0 with ttl 50; a get at time 30 is a hit;    *)
(* with no get of the entry since the put, the sweep at time 60 removes    *)
(* the entry and a get after that sweep is a miss; after the get at 30 the *)
(* sweep at 60 need not remove the entry, and the get following it is a    *)
(* miss exactly if the sweep removed the entry.                            *)
(***************************************************************************)
C9_ScenarioD ==
    /\ scen.stage = 2 => scen.hit /\ scen.url \in DOMAIN cache
    /\ scen.stage = 5 => scen.url \notin DOMAIN cache
    /\ scen.stage = 6 => ~ scen.hit
    /\ scen.stage = 4 => (scen.hit <=> scen.url \in DOMAIN cache)

\* the sweep at 60 with no get before it has run, and the get after it
C9_Witness ==
    /\ scen.stage = 6
    /\ ret.op = "cache.get"
    /\ ret.key = scen.url

(***************************************************************************)
(* Configuration (config.json): the static overrides, name -> steam_id     *)
(***************************************************************************)
auto_allow == ("Bob" :> "a3") @@ ("Eve" :> "a4")
auto_deny  == ("Mal" :> "a2") @@ ("Rob" :> "a3")

auto_allow_ids == {auto_allow[n] : n \in DOMAIN auto_allow}

\* auto_deny_ids without the difference_update
auto_deny_ids_all == {auto_deny[n] : n \in DOMAIN auto_deny}

\* auto-allow prevails
auto_deny_ids == {auto_deny[n] : n \in DOMAIN auto_deny} \ auto_allow_ids

auto_ids_allow_only == auto_allow_ids

auto_ids == auto_allow_ids \cup auto_deny_ids

\* the steam ids update_last_seen is called for at the start of a cycle
refreshed_ids_none == {}

refreshed_ids == auto_allow_ids

(***************************************************************************)
(* p_acl_updater.  Every store call is one step (the connection is in      *)
(* autocommit mode); update_last_seen and the add that follows a False are *)
(* taken together, the first changing nothing in that case.                *)
(***************************************************************************)
\* SqliteAccessControlList.open(acl_file, create=True): connect ...
UpdaterConnect ==
    /\ u_pc = "start"
    /\ acl_file' = IF acl_file = "missing" THEN "created" ELSE acl_file
    /\ u_pc' = IF acl_file = "ready" THEN "init_allow" ELSE "create"
    /\ u_todo' = IF acl_file = "ready" THEN DOMAIN auto_allow ELSE {}
    /\ UNCHANGED <<timeVars, conn, unresolvable, pool, acl, cacheVars, ret, q_resolved_profiles,
                   u_profiles, u_now, u_batch, u_tag, u_cycles, pipeVars>>

\* ... and CREATE TABLE when the file was not there
UpdaterCreate ==
    /\ u_pc = "create"
    /\ acl_file' = "ready"
    /\ acl' = EmptyTable
    /\ u_pc' = "init_allow"
    /\ u_todo' = DOMAIN auto_allow
    /\ UNCHANGED <<timeVars, conn, unresolvable, pool, cacheVars, ret, q_resolved_profiles,
                   u_profiles, u_now, u_batch, u_tag, u_cycles, pipeVars>>

\* acl.add(steam_id_str, name, added_on=datetime.now(), last_seen=datetime.now())
UpdaterInitAllow ==
    /\ u_pc = "init_allow"
    /\ \/ /\ u_todo = {}
          /\ u_pc' = "init_deny"
          /\ u_todo' = auto_deny_ids
          /\ UNCHANGED <<clock, acl>>
       \/ \E name \in u_todo, d \in {0, 1} :
            /\ clock' = clock + d
            /\ acl' = AclAdd(acl, auto_allow[name], name,
                             clock + tz, clock' + tz, clock' + tz).tbl
            /\ u_todo' = u_todo \ {name}
            /\ u_pc' = u_pc
    /\ UNCHANGED <<tz, conn, unresolvable, pool, acl_file, cacheVars, ret, q_resolved_profiles,
                   u_profiles, u_now, u_batch, u_tag, u_cycles, pipeVars>>

\* acl.remove(steam_id)
UpdaterInitDeny ==
    /\ u_pc = "init_deny"
    /\ \/ /\ u_todo = {}
          /\ u_pc' = "get"
          /\ UNCHANGED <<acl, u_todo>>
       \/ \E steam_id \in u_todo :
            /\ acl' = AclRemove(acl, steam_id).tbl
            /\ u_todo' = u_todo \ {steam_id}
            /\ u_pc' = u_pc
    /\ UNCHANGED <<timeVars, conn, unresolvable, pool, acl_file, cacheVars, ret, q_resolved_profiles,
                   u_profiles, u_now, u_batch, u_tag, u_cycles, pipeVars>>

\* profiles = q_resolved_profiles.get(); now = datetime.now().  The clock has
\* moved on since the last store write.
UpdaterGet ==
    /\ u_pc = "get"
    /\ u_cycles < MaxCycles
    /\ q_resolved_profiles # <<>>
    /\ u_profiles' = QueueFront(q_resolved_profiles).profiles
    /\ u_batch' = QueueFront(q_resolved_profiles).profiles
    /\ u_tag' = QueueFront(q_resolved_profiles).tag
    /\ q_resolved_profiles' = QueueRest(q_resolved_profiles)
    /\ \E d \in {1, TicksPerSec} : clock' = clock + d
    /\ u_now' = clock' + tz
    /\ u_pc' = "allow_seen"
    /\ u_todo' = refreshed_ids
    /\ UNCHANGED <<tz, conn, unresolvable, pool, acl, acl_file, cacheVars, ret, u_cycles, pipeVars>>

\* [acl.update_last_seen(steam_id, now) for steam_id in auto_allow_ids]
UpdaterAllowSeen ==
    /\ u_pc = "allow_seen"
    /\ \/ /\ u_todo = {}
          /\ u_pc' = "filter"
          /\ UNCHANGED <<acl, u_todo>>
       \/ \E steam_id \in u_todo :
            /\ acl' = AclUpdateLastSeen(acl, steam_id, u_now, LocalNow).tbl
            /\ u_todo' = u_todo \ {steam_id}
            /\ u_pc' = u_pc
    /\ UNCHANGED <<timeVars, conn, unresolvable, pool, acl_file, cacheVars, ret, q_resolved_profiles,
                   u_profiles, u_now, u_batch, u_tag, u_cycles, pipeVars>>

\* auto_urls, and del profiles[profile_url] for each of them
UpdaterFilter ==
    /\ u_pc = "filter"
    /\ LET auto_urls == {url \in DOMAIN u_profiles :
                            u_profiles[url].steam_id \in auto_ids}
       IN  /\ u_profiles' = Restrict(u_profiles, DOMAIN u_profiles \ auto_urls)
           /\ u_todo' = DOMAIN u_profiles \ auto_urls
    /\ u_pc' = "update"
    /\ UNCHANGED <<timeVars, conn, unresolvable, pool, acl, acl_file, cacheVars, ret, q_resolved_profiles,
                   u_now, u_batch, u_tag, u_cycles, pipeVars>>

\* a refresh that writes the whole row from the batch (INSERT OR REPLACE)
UpdaterUpdateRewrites ==
    /\ u_pc = "update"
    /\ \/ /\ u_todo = {}
          /\ u_pc' = "expire"
          /\ UNCHANGED <<acl, u_todo>>
       \/ \E url \in u_todo :
            LET profile == u_profiles[url]
            IN  /\ acl' = InsertOrReplace(acl, profile.steam_id,
                                          AclRow(profile.name, u_now, u_now)).tbl
                /\ u_todo' = u_todo \ {url}
                /\ u_pc' = u_pc
    /\ UNCHANGED <<timeVars, conn, unresolvable, pool, acl_file, cacheVars, ret, q_resolved_profiles,
                   u_profiles, u_now, u_batch, u_tag, u_cycles, pipeVars>>

\* updated = acl.update_last_seen(profile.steam_id, ts=now)
\* if not updated: acl.add(profile.steam_id, profile.name, added_on=now, last_seen=now)
UpdaterUpdate ==
    /\ u_pc = "update"
    /\ \/ /\ u_todo = {}
          /\ u_pc' = "expire"
          /\ UNCHANGED <<acl, u_todo>>
       \/ \E url \in u_todo :
            LET profile == u_profiles[url]
                upd == AclUpdateLastSeen(acl, profile.steam_id, u_now, LocalNow)
            IN  /\ acl' = IF upd.res
                          THEN upd.tbl
                          ELSE AclAdd(upd.tbl, profile.steam_id, profile.name,
                                      u_now, u_now, LocalNow).tbl
                /\ u_todo' = u_todo \ {url}
                /\ u_pc' = u_pc
    /\ UNCHANGED <<timeVars, conn, unresolvable, pool, acl_file, cacheVars, ret, q_resolved_profiles,
                   u_profiles, u_now, u_batch, u_tag, u_cycles, pipeVars>>

\* num_expired = acl.expire(min_last_seen=now)
UpdaterExpire ==
    /\ u_pc = "expire"
    /\ acl' = AclExpire(acl, u_now).tbl
    /\ u_pc' = "get"
    /\ u_cycles' = u_cycles + 1
    /\ UNCHANGED <<timeVars, conn, unresolvable, pool, acl_file, cacheVars, ret, q_resolved_profiles,
                   u_todo, u_profiles, u_now, u_batch, u_tag, pipeVars>>

p_acl_updater ==
    \/ UpdaterConnect
    \/ UpdaterCreate
    \/ UpdaterInitAllow
    \/ UpdaterInitDeny
    \/ UpdaterGet
    \/ UpdaterAllowSeen
    \/ UpdaterFilter
    \/ UpdaterUpdate
    \/ UpdaterExpire

(***************************************************************************)
(* p_acl_updater on its own: the ACL file as an earlier run may have left  *)
(* it (or missing), and any resolved batch on its queue.                   *)
(***************************************************************************)
\* a row written by an earlier run
OldRow(steam_id) == AclRow("old", Epoch - 3, Epoch - 1)

\* a row written while the local clock was an hour ahead of what it is now
\* (daylight saving time has ended since, or the time zone was changed): the
\* timestamps are naive local datetimes
AheadRow(steam_id) ==
    AclRow("old", Epoch - 3 + 3600 * TicksPerSec, Epoch - 1 + 3600 * TicksPerSec)

OldTables ==
    {[k \in S |-> IF k \in A THEN AheadRow(k) ELSE OldRow(k)] :
        S \in SUBSET SteamIDs, A \in SUBSET SteamIDs}

\* a fully resolved batch: {profile_url: SteamUserProfile}
Batch(urls) == [url \in urls |-> Directory(url)]

InitRecon ==
    /\ conn = AllOpen
    /\ pool = IdlePool
    /\ unresolvable = {}
    /\ clock = Epoch
    /\ tz = 0
    /\ ret = NoCall
    /\ cache = EmptyTable
    /\ ncalls = 0
    /\ accessed = EmptyTable
    /\ scen = NoScenario
    /\ acl_file \in {"missing", "ready"}
    /\ acl \in IF acl_file = "missing" THEN {EmptyTable} ELSE OldTables
    /\ q_resolved_profiles = <<>>
    /\ u_pc = "start"
    /\ u_todo = {}
    /\ u_profiles = EmptyTable
    /\ u_now = NoTime
    /\ u_batch = EmptyTable
    /\ u_tag = 0
    /\ u_cycles = 0
    /\ PipeIdle

\* the resolver's side of the queue: q_resolved_profiles.put(profiles)
EnvBatch ==
    /\ q_resolved_profiles = <<>>
    /\ \E urls \in SUBSET Urls :
            q_resolved_profiles' = <<[profiles |-> Batch(urls), tag |-> 0]>>
    /\ UNCHANGED <<timeVars, conn, unresolvable, pool, acl, acl_file, cacheVars, ret, u_pc, u_todo,
                   u_profiles, u_now, u_batch, u_tag, u_cycles, pipeVars>>

NextRecon ==
    \/ p_acl_updater
    \/ EnvBatch

SpecRecon == InitRecon /\ [][NextRecon]_vars

\* p_acl_updater has left its initialization
Bootstrapped == u_pc \in {"get", "allow_seen", "filter", "update", "expire"}

BatchIds(batch) == {batch[url].steam_id : url \in DOMAIN batch}

(***************************************************************************)
(* C2: convergence.  Whatever the store held before, when a cycle for the  *)
(* resolved batch B is complete the steam ids in the store are exactly     *)
(* AutoAllow \cup (ids of B \ AutoDeny).                                   *)
(***************************************************************************)
C2_Convergence ==
    (u_pc = "get" /\ u_cycles >= 1) =>
        DOMAIN acl = {auto_allow[n] : n \in DOMAIN auto_allow}
                     \cup (BatchIds(u_batch) \ {auto_deny[n] : n \in DOMAIN auto_deny})

(***************************************************************************)
(* C3: auto-allow immunity.  Once the initialization of p_acl_updater is   *)
(* complete every AutoAllow steam id has an entry, in every later state,   *)
(* whatever the batches hold and however many cycles run.                  *)
(***************************************************************************)
C3_AutoAllowImmunity ==
    Bootstrapped => \A n \in DOMAIN auto_allow : auto_allow[n] \in DOMAIN acl

\* two cycles are complete, none of their sweeps took Eve, who is on no roster
C3_Witness ==
    /\ u_pc = "get"
    /\ u_cycles = 2
    /\ "a4" \in DOMAIN acl
    /\ acl["a4"].name = "Eve"
    /\ "a1" \notin DOMAIN acl

(***************************************************************************)
(* C4 as stated: a steam id in AutoDeny and not in AutoAllow has no entry  *)
(* in the store, in any state.                                              *)
(***************************************************************************)
C4_AutoDeny_Original ==
    \A n \in DOMAIN auto_deny :
        auto_deny[n] \notin {auto_allow[m] : m \in DOMAIN auto_allow}
            => auto_deny[n] \notin DOMAIN acl

(***************************************************************************)
(* C4 as amended: once the initialization of p_acl_updater is complete, a  *)
(* steam id in AutoDeny and not in AutoAllow has no entry in the store, in *)
(* any state, the states inside a cycle included, even when every batch    *)
(* holds it.                                                                *)
(***************************************************************************)
C4_AutoDeny ==
    Bootstrapped =>
        \A n \in DOMAIN auto_deny :
            auto_deny[n] \notin {auto_allow[m] : m \in DOMAIN auto_allow}
                => auto_deny[n] \notin DOMAIN acl

\* inside the second cycle, the batch holding the denied member, the others
\* already added
C4_Witness ==
    /\ u_pc = "expire"
    /\ u_cycles = 1
    /\ "h2" \in DOMAIN u_batch
    /\ "a1" \in DOMAIN acl

(***************************************************************************)
(* C5: allow beats deny.  A steam id configured in both AutoAllow and      *)
(* AutoDeny is inserted by the initialization, is not removed by it, and   *)
(* has an entry in every later state.                                      *)
(***************************************************************************)
C5_AllowBeatsDeny ==
    u_pc \in {"init_deny", "get", "allow_seen", "filter", "update", "expire"} =>
        \A n \in DOMAIN auto_allow, m \in DOMAIN auto_deny :
            auto_allow[n] = auto_deny[m] => auto_allow[n] \in DOMAIN acl

\* the initialization inserted Bob, a cycle whose batch holds him is complete
C5_Witness ==
    /\ u_pc = "get"
    /\ u_cycles >= 1
    /\ "h3" \in DOMAIN u_batch
    /\ "a3" \in DOMAIN acl
    /\ acl["a3"].name = "Bob"

(***************************************************************************)
(* The pipeline: p_group_poller -> q_group_updates -> p_resolver ->        *)
(* q_resolved_profiles -> p_acl_updater.  Both queues are Queue(1).  A     *)
(* snapshot is known by the number of the request that fetched it.         *)
(***************************************************************************)
G_MAX_RESOLVE_ATTEMPTS == 3
G_CACHE_TTL == 7 * 24 * 3600

MaxPolls == 2           \* requests p_group_poller makes that are told apart

QueueSize == 1          \* main(): Queue(1)

\* api.members(group_id): the rosters Steam may answer with
Rosters == {{"h1", "h2"}, {"h3"}}

\* num_requests += 1.  The requests after the first MaxPolls are counted as
\* one; their snapshots are not followed through the pipeline.
NextRequest == IF num_requests <= MaxPolls THEN num_requests + 1 ELSE num_requests
Followed(tag) == tag <= MaxPolls

\* num_requests += 1; members_page = api.members(group_id); profile_urls = [...]
\* or api.members raises SteamApiError
PollerFetch(bounded) ==
    /\ p_pc = "fetch"
    /\ bounded => num_requests < MaxPolls
    /\ num_requests' = NextRequest
    /\ \/ \E urls \in Rosters :
            /\ profile_urls' = urls
            /\ p_pc' = "put"
            /\ p_log' = p_log
       \/ /\ p_log' = "API ERROR"
          /\ p_pc' = "retry"
          /\ profile_urls' = profile_urls
    /\ UNCHANGED <<timeVars, conn, unresolvable, pool, acl, cacheVars, ret, updVars, q_group_updates, lost,
                   resVars>>

\* q_group_updates.put(profile_urls, timeout=G_UPDATE_QUEUE_TIMEOUT): there is
\* room in the queue before the timeout runs out
PollerPut ==
    /\ p_pc = "put"
    /\ Len(q_group_updates) < QueueSize
    /\ q_group_updates' = QueuePut(q_group_updates,
                                 [urls |-> profile_urls, tag |-> num_requests])
    /\ p_log' = "members found and sent for update"
    /\ p_pc' = "sleep"
    /\ UNCHANGED <<timeVars, conn, unresolvable, pool, acl, cacheVars, ret, updVars,
                   profile_urls, num_requests, lost, resVars>>

\* the put a mutant makes: no timeout, it waits for room
PollerFullBlocks ==
    /\ FALSE
    /\ UNCHANGED vars

\* except Full: the queue stayed full for G_UPDATE_QUEUE_TIMEOUT seconds
PollerFull ==
    /\ p_pc = "put"
    /\ Len(q_group_updates) >= QueueSize
    /\ p_log' = "WARNING: q_group_updates queue is NOT READY! STATUS DATA WAS LOST!"
    /\ lost' = IF Followed(num_requests) THEN lost \cup {num_requests} ELSE lost
    /\ p_pc' = "sleep"
    /\ UNCHANGED <<timeVars, conn, unresolvable, pool, acl, cacheVars, ret, updVars, q_group_updates,
                   profile_urls, num_requests, resVars>>

\* the retry a mutant makes: no continue, it goes on to sleep(interval)
PollerRetrySleeps ==
    /\ p_pc = "retry"
    /\ p_pc' = "sleep"
    /\ UNCHANGED <<timeVars, conn, unresolvable, pool, acl, cacheVars, ret, updVars, q_group_updates,
                   profile_urls, num_requests, p_log, lost, resVars>>

\* sleep(G_RETRY_SECS); continue
PollerRetry ==
    /\ p_pc = "retry"
    /\ p_pc' = "fetch"
    /\ UNCHANGED <<timeVars, conn, unresolvable, pool, acl, cacheVars, ret, updVars, q_group_updates,
                   profile_urls, num_requests, p_log, lost, resVars>>

\* sleep(interval)
PollerSleep ==
    /\ p_pc = "sleep"
    /\ p_pc' = "fetch"
    /\ UNCHANGED <<timeVars, conn, unresolvable, pool, acl, cacheVars, ret, updVars, q_group_updates,
                   profile_urls, num_requests, p_log, lost, resVars>>

\* bounded: the poller is looked at for its first MaxPolls requests only
p_group_poller(bounded) ==
    \/ PollerFetch(bounded)
    \/ PollerPut
    \/ PollerFull
    \/ PollerRetry
    \/ PollerSleep

NoProfile == SteamUserProfile(None, None, None)

\* resolve_one(profile_url): what it may return, (profile, num_attempts).
\* api.profile answers at one of the G_MAX_RESOLVE_ATTEMPTS attempts, or it
\* raises SteamApiError at every one of them and the profile is None
\* a resolve_one that never returns
resolve_never(profile_url) == {}

resolve_one(profile_url) ==
    {[profile |-> Directory(profile_url), attempts |-> n] :
        n \in IF profile_url \in unresolvable THEN {}
               ELSE 1..G_MAX_RESOLVE_ATTEMPTS}
    \cup {[profile |-> NoProfile, attempts |-> G_MAX_RESOLVE_ATTEMPTS]}

\* the work unit a mutant never disqualifies
DisqualifiedNever(missed) == FALSE

\* if missed_profile_urls:
Disqualified(missed) == missed # {}

\* a resolver that caches whatever resolve_one returned
CachedAll(found, missing) == missing

\* the urls cache.put runs for: those under "if profile:"
Cached(found, missing) == found

\* One work unit, up to the decision on it:
\*   profiles = {profile_url: cache.get(profile_url) for ... in q_group_updates.get()}
\*   missing_profiles = [... if not profile]
\*   for profile_url, profile, num_attempts in resolver_pool.map(resolve_one, ...):
\*       profiles[profile_url] = profile; cache.put(...)  or  missed_profile_urls.add(...)
\*   if missed_profile_urls: log the warning
ResolverGet ==
    /\ r_pc = "get"
    /\ q_group_updates # <<>>
    /\ LET unit == QueueFront(q_group_updates)
           hits == unit.urls \cap DOMAIN cache
           missing_profiles == unit.urls \ hits
       IN  \E results \in [missing_profiles ->
                              UNION {resolve_one(url) : url \in missing_profiles}] :
            /\ \A url \in missing_profiles : results[url] \in resolve_one(url)
            /\ LET found == {url \in missing_profiles :
                                results[url].profile # NoProfile}
               IN  /\ r_profiles' = [url \in unit.urls |->
                            IF url \in hits
                            THEN CacheGet(cache, url, clock, tz).profile
                            ELSE results[url].profile]
                   /\ cache' = [url \in DOMAIN cache \cup Cached(found, missing_profiles) |->
                            IF url \in Cached(found, missing_profiles)
                            THEN CachePut(cache, url, results[url].profile,
                                          G_CACHE_TTL * TicksPerSec, clock)[url]
                            ELSE IF url \in hits
                            THEN CacheGet(cache, url, clock, tz).tbl[url]
                            ELSE cache[url]]
                   /\ missed_profile_urls' = missing_profiles \ found
           /\ r_tag' = unit.tag
    /\ failed' = IF missed_profile_urls' # {} /\ Followed(r_tag')
                 THEN failed \cup {r_tag'} ELSE failed
    /\ IF Disqualified(missed_profile_urls')
       THEN /\ r_log' = "WARNING: RESOLVE FAILED"
            /\ r_pc' = "expire"
       ELSE /\ r_log' = r_log
            /\ r_pc' = "put"
    /\ q_group_updates' = QueueRest(q_group_updates)
    /\ UNCHANGED <<timeVars, conn, unresolvable, pool, acl, ret, ncalls, accessed, scen, updVars, pollVars>>

\* a put that gives up when the queue is full, as the poller's does
ResolverPutDrops ==
    /\ r_pc = "put"
    /\ IF Len(q_resolved_profiles) < QueueSize
       THEN q_resolved_profiles' = QueuePut(q_resolved_profiles,
                                            [profiles |-> r_profiles, tag |-> r_tag])
       ELSE q_resolved_profiles' = q_resolved_profiles
    /\ r_pc' = "expire"
    /\ UNCHANGED <<timeVars, conn, unresolvable, pool, acl, cacheVars, ret, acl_file, u_pc, u_todo,
                   u_profiles, u_now, u_batch, u_tag, u_cycles, q_group_updates,
                   pollVars, r_profiles, missed_profile_urls, r_tag,
                   r_log, failed>>

\* q_resolved_profiles.put(profiles): no timeout, it waits for room
ResolverPut ==
    /\ r_pc = "put"
    /\ Len(q_resolved_profiles) < QueueSize
    /\ q_resolved_profiles' = QueuePut(q_resolved_profiles,
                                     [profiles |-> r_profiles, tag |-> r_tag])
    /\ r_pc' = "expire"
    /\ UNCHANGED <<timeVars, conn, unresolvable, pool, acl, cacheVars, ret, acl_file, u_pc, u_todo,
                   u_profiles, u_now, u_batch, u_tag, u_cycles, q_group_updates,
                   pollVars, r_profiles, missed_profile_urls, r_tag,
                   r_log, failed>>

\* num_expired = cache.expire()
ResolverExpire ==
    /\ r_pc = "expire"
    /\ cache' = CacheExpire(cache, clock).tbl
    /\ r_pc' = "get"
    /\ r_profiles' = EmptyTable
    /\ missed_profile_urls' = {}
    /\ UNCHANGED <<timeVars, conn, unresolvable, pool, acl, ret, ncalls, accessed, scen, updVars,
                   q_group_updates, pollVars, r_tag, r_log, failed>>

p_resolver ==
    \/ ResolverGet
    \/ ResolverPut
    \/ ResolverExpire

Init ==
    /\ conn = AllOpen
    /\ pool = IdlePool
    /\ unresolvable = {}
    /\ clock = Epoch
    /\ tz = 0
    /\ ret = NoCall
    /\ cache = EmptyTable
    /\ ncalls = 0
    /\ accessed = EmptyTable
    /\ scen = NoScenario
    /\ acl_file \in {"missing", "ready"}
    /\ acl \in IF acl_file = "missing" THEN {EmptyTable}
               ELSE {[k \in {"a1", "a2"} |-> OldRow(k)]}
    /\ q_resolved_profiles = <<>>
    /\ u_pc = "start"
    /\ u_todo = {}
    /\ u_profiles = EmptyTable
    /\ u_now = NoTime
    /\ u_batch = EmptyTable
    /\ u_tag = 0
    /\ u_cycles = 0
    /\ PipeIdle

\* the whole service, p_group_poller for its first MaxPolls requests
Next ==
    \/ p_group_poller(TRUE)
    \/ p_resolver
    \/ p_acl_updater

Spec == Init /\ [][Next]_vars

(***************************************************************************)
(* C1: a snapshot with a profile that resolve_one gave up on is never      *)
(* delivered to p_acl_updater, neither whole nor in part: no batch on      *)
(* q_resolved_profiles and no batch p_acl_updater received comes from such *)
(* a snapshot, and every batch on the queue holds a profile for every url; *)
(* the steps p_resolver makes on such a snapshot leave the queue and the   *)
(* store as they were.                                                     *)
(***************************************************************************)
C1_AtomicBatch ==
    /\ [](/\ \A i \in 1..Len(q_resolved_profiles) :
                /\ q_resolved_profiles[i].tag \notin failed
                /\ \A url \in DOMAIN q_resolved_profiles[i].profiles :
                        q_resolved_profiles[i].profiles[url] # NoProfile
          /\ u_tag \notin failed)
    /\ [][(r_pc' # r_pc /\ missed_profile_urls \cup missed_profile_urls' # {}) =>
            /\ q_resolved_profiles' = q_resolved_profiles
            /\ acl' = acl]_vars

\* the first snapshot was resolved in part (h1 found and cached, h2 given up
\* on); the unit is disqualified, nothing is queued, the store is as the
\* initialization left it
C1_Witness ==
    /\ r_pc = "expire"
    /\ r_tag = 1
    /\ 1 \in failed
    /\ missed_profile_urls = {"h2"}
    /\ "h1" \in DOMAIN cache
    /\ q_resolved_profiles = <<>>
    /\ u_pc = "get"
    /\ u_cycles = 0
    /\ DOMAIN acl = {"a3", "a4"}

(***************************************************************************)
(* p_group_poller against a resolver that may be slow or stuck: the        *)
(* poller and the resolver only, nobody takes from q_resolved_profiles.    *)
(* The poller is a process of its own, it runs whenever it can.            *)
(***************************************************************************)
NextPollerLive ==
    \/ p_group_poller(FALSE)
    \/ p_resolver

SpecPollerLive == Init /\ [][NextPollerLive]_vars /\ WF_vars(p_group_poller(FALSE))

(***************************************************************************)
(* C10: when q_group_updates stays full for the put timeout the poller     *)
(* drops the snapshot, logs the data-loss warning and goes to sleep; the   *)
(* queue is left as it was, the dropped snapshot is never delivered, and   *)
(* the poller always gets from the put to its sleep and from its sleep to  *)
(* the next poll.                                                          *)
(***************************************************************************)
C10_DropNotBlock ==
    /\ [][(p_pc = "put" /\ Len(q_group_updates) >= QueueSize /\ p_pc' # "put") =>
            /\ q_group_updates' = q_group_updates
            /\ p_log' = "WARNING: q_group_updates queue is NOT READY! STATUS DATA WAS LOST!"
            /\ p_pc' = "sleep"
            /\ Followed(num_requests) => num_requests \in lost']_vars
    /\ [](\A tag \in lost :
            /\ \A i \in 1..Len(q_group_updates) : q_group_updates[i].tag # tag
            /\ \A i \in 1..Len(q_resolved_profiles) : q_resolved_profiles[i].tag # tag
            /\ r_tag # tag
            /\ u_tag # tag)
    /\ (p_pc = "put" ~> p_pc = "sleep")
    /\ (p_pc = "sleep" ~> p_pc = "fetch")
    /\ []<>(p_pc = "fetch")

\* the second snapshot was dropped while the first was still on the queue;
\* the poller has slept and is back at polling
C10_Witness ==
    /\ p_pc = "fetch"
    /\ num_requests = 2
    /\ lost = {2}
    /\ p_log = "WARNING: q_group_updates queue is NOT READY! STATUS DATA WAS LOST!"
    /\ Len(q_group_updates) = 1
    /\ q_group_updates[1].tag = 1

(***************************************************************************)
(* C11: snapshot ordering.  Whatever p_group_poller puts on                *)
(* q_group_updates is the roster of its current request, a request newer   *)
(* than any on the queue or taken before; whatever p_resolver takes is the *)
(* front of the queue, of a request newer than the one it took before.  So *)
(* the snapshots p_resolver receives are a subsequence of those fetched,   *)
(* in the order fetched, none twice.                                       *)
(***************************************************************************)
C11_SnapshotOrder ==
    /\ [][q_group_updates' # q_group_updates /\ p_pc' # p_pc =>
            /\ p_pc = "put"
            /\ q_group_updates' =
                    Append(q_group_updates, [urls |-> profile_urls, tag |-> num_requests])
            /\ \A i \in 1..Len(q_group_updates) : q_group_updates[i].tag < num_requests
            /\ r_tag < num_requests]_vars
    /\ [][r_pc = "get" /\ r_pc' # "get" =>
            /\ q_group_updates # <<>>
            /\ r_tag' = q_group_updates[1].tag
            /\ DOMAIN r_profiles' = q_group_updates[1].urls
            /\ r_tag' > r_tag
            /\ q_group_updates' = Tail(q_group_updates)]_vars

\* p_resolver has received the second snapshot after the first, whose batch
\* p_acl_updater holds
C11_Witness ==
    /\ r_tag = 2
    /\ r_pc = "put"
    /\ u_tag = 1
    /\ DOMAIN r_profiles = {"h3"}
    /\ DOMAIN u_batch = {"h1", "h2"}

(***************************************************************************)
(* p_resolver and p_acl_updater, each running whenever it can (each is a   *)
(* process of its own), fed with successive snapshots.                     *)
(***************************************************************************)
\* the poller's side of q_group_updates: a successful request and its put
EnvSnapshot ==
    /\ Len(q_group_updates) < QueueSize
    /\ num_requests < MaxPolls
    /\ num_requests' = NextRequest
    /\ \E urls \in Rosters :
            /\ profile_urls' = urls
            /\ q_group_updates' = QueuePut(q_group_updates,
                                           [urls |-> urls, tag |-> num_requests'])
    /\ UNCHANGED <<timeVars, conn, unresolvable, pool, acl, cacheVars, ret, updVars, p_pc, p_log, lost,
                   resVars>>

NextDelivery ==
    \/ EnvSnapshot
    \/ p_resolver
    \/ p_acl_updater

\* a first run: no ACL file yet
InitDelivery == Init /\ acl_file = "missing"

SpecDelivery ==
    /\ InitDelivery
    /\ [][NextDelivery]_vars
    /\ WF_vars(p_resolver)
    /\ WF_vars(p_acl_updater)

(***************************************************************************)
(* C12: resolved batches are not dropped.  p_resolver leaves its put only  *)
(* by putting the batch of the snapshot it resolved on q_resolved_profiles *)
(* (it waits while the queue is full); a resolved snapshot p_resolver is   *)
(* done with is on the queue or is the last p_acl_updater received;        *)
(* p_acl_updater receives the front of the queue, of a snapshot newer than *)
(* the one before; a batch waiting to be put is put in the end, and a      *)
(* batch on the queue is received in the end.                              *)
(***************************************************************************)
C12_BatchDelivery ==
    /\ [][r_pc = "put" /\ r_pc' # "put" =>
            q_resolved_profiles' =
                Append(q_resolved_profiles, [profiles |-> r_profiles, tag |-> r_tag])]_vars
    /\ []((r_pc \in {"expire", "get"} /\ r_tag # 0 /\ r_tag \notin failed) =>
            \/ \E i \in 1..Len(q_resolved_profiles) : q_resolved_profiles[i].tag = r_tag
            \/ u_tag = r_tag)
    /\ [][u_pc = "get" /\ u_pc' # "get" =>
            /\ q_resolved_profiles # <<>>
            /\ u_tag' = q_resolved_profiles[1].tag
            /\ u_batch' = q_resolved_profiles[1].profiles
            /\ u_tag' > u_tag
            /\ q_resolved_profiles' = Tail(q_resolved_profiles)]_vars
    /\ (r_pc = "put") ~> (r_pc = "expire")
    /\ (q_resolved_profiles # <<>>) ~> (q_resolved_profiles = <<>>)

\* the second batch was held back while the first was on the queue, and has
\* been received after it
C12_Witness ==
    /\ u_tag = 2
    /\ u_cycles = 1
    /\ u_pc = "allow_seen"
    /\ r_tag = 2
    /\ r_pc = "expire"
    /\ DOMAIN u_batch = {"h3"}

(***************************************************************************)
(* The lookup service.  main() waits until the ACL file exists             *)
(* (os.path.isfile), opens its own handle on it, which only connects when  *)
(* the file is there, and serves GET requests one at a time.  A request's  *)
(* outcome is recorded in ret: ts is the HTTP status (NoTime when the      *)
(* handler raised and no response was written), res the "allowed" member   *)
(* of the JSON body.                                                       *)
(***************************************************************************)
Paths == {"/", "/status"}
NoSteamID == ""

\* SELECT ... FROM allowed_users: sqlite3.OperationalError while the file
\* has no table
is_allowed(steam_id) ==
    IF acl_file = "ready"
    THEN [raised |-> FALSE, allowed |-> AclFind(acl, steam_id).found]
    ELSE [raised |-> TRUE, allowed |-> FALSE]

\* str(int(allowed))
StrInt(allowed) == IF allowed THEN "1" ELSE "0"

do_GET(path, steam_id) ==
    IF path # "/"
    THEN [op |-> "GET", key |-> steam_id, name |-> path, ts |-> 404, res |-> None]
    ELSE IF steam_id = NoSteamID
    THEN [op |-> "GET", key |-> steam_id, name |-> path, ts |-> 400, res |-> None]
    ELSE IF is_allowed(steam_id).raised
    THEN [op |-> "GET", key |-> steam_id, name |-> path, ts |-> NoTime, res |-> None]
    ELSE [op |-> "GET", key |-> steam_id, name |-> path, ts |-> 200,
          res |-> StrInt(is_allowed(steam_id).allowed)]

HttpGet ==
    /\ acl_file # "missing"
    /\ \E path \in Paths, steam_id \in SteamIDs \cup {NoSteamID} :
            ret' = do_GET(path, steam_id)
    /\ UNCHANGED <<timeVars, conn, unresolvable, pool, acl, cacheVars, updVars, pipeVars>>

NextLookup ==
    \/ p_acl_updater
    \/ EnvBatch
    \/ HttpGet

SpecLookup == Init /\ [][NextLookup]_vars

\* C13: every lookup of an account id is answered with status 200 and
\* allowed = "1" exactly when the access list holds an entry for that id at
\* the time of the query, allowed = "0" when it holds none.
C13_LookupExact ==
    [][(ret'.op = "GET" /\ ret'.name = "/" /\ ret'.key # NoSteamID /\ ret' # ret)
        => /\ ret'.ts = 200
           /\ ret'.res = (IF ret'.key \in DOMAIN acl THEN "1" ELSE "0")]_vars

(***************************************************************************)
(* Store handles.  A handle holds one sqlite3 connection on the store's    *)
(* file; the tables (cache, acl) are what the file holds.  The cache goes  *)
(* to its connection through the _conn property, which asserts is_open();  *)
(* the access list uses self.conn, and a closed sqlite3 connection raises  *)
(* ProgrammingError.  The connections are in autocommit mode               *)
(* (isolation_level=None): a statement that returned is in the file.       *)
(* The calls below are made within one tick of the clock.                  *)
(***************************************************************************)
HTtls == {0, 50}
AclHandles == {"acl1", "acl2"}

NoHCall == [op |-> "none", h |-> None, key |-> None, exc |-> None, res |-> None]
HRet(op, h, key, exc, res) ==
    [op |-> op, h |-> h, key |-> key, exc |-> exc,
     res |-> IF exc = None THEN res ELSE None]

\* a handle whose close() did not drop the connection
ConnIgnoresClose(h) == None

\* the exception a statement on handle h raises before it runs, or None
Conn(h) ==
    IF conn[h] THEN None
    ELSE IF h = "cache" THEN "AssertionError" ELSE "ProgrammingError"

\* a connection that leaves its statements in an open transaction
Deferred(before, after) == before

\* isolation_level=None: what the file holds after a statement on a handle
Autocommit(before, after) == after

\* what the file holds after a call on handle h whose statement gives after
Execute(h, before, after) ==
    IF Conn(h) = None THEN Autocommit(before, after) ELSE before

CacheRemove(tbl, profile_url) ==
    [tbl |-> Restrict(tbl, DOMAIN tbl \ {profile_url}),
     res |-> profile_url \in DOMAIN tbl]

CacheClear(tbl) == EmptyTable

\* entries(): the rows, as the tests read them (steam_id, name)
AclEntries(tbl) == {<<k, tbl[k].name>> : k \in DOMAIN tbl}

\* ghost: how far the last calls follow a write, close, reopen, read round
\* trip.  Cache: 1 put(url), 2 close, 3 open, 4 get(url) (len in between is
\* compared with the count after the put).  Access list: 11 add returned
\* True, 12 close, 13 open of the same handle, 14 its entries read.
RoundTrip(r, name, n) ==
    CASE r.exc # None -> NoScenario
      [] r.op = "cache.put" ->
            [stage |-> 1, url |-> r.key, t0 |-> n, hit |-> TRUE]
      [] r.op = "close" /\ r.h = "cache" /\ scen.stage = 1 ->
            [scen EXCEPT !.stage = 2]
      [] r.op = "open" /\ r.h = "cache" /\ scen.stage = 2 ->
            [scen EXCEPT !.stage = 3]
      [] r.op = "cache.len" /\ scen.stage = 3 ->
            [scen EXCEPT !.hit = (r.res = scen.t0)]
      [] r.op = "cache.get" /\ scen.stage = 3 /\ r.key = scen.url ->
            [scen EXCEPT !.stage = 4,
                         !.hit = scen.hit /\ r.res.steam_id = Directory(r.key).steam_id]
      [] r.op = "add" /\ r.res = TRUE ->
            [stage |-> 11, url |-> <<r.key, name>>, t0 |-> n, hit |-> TRUE]
      [] r.op = "close" /\ r.h # "cache" /\ scen.stage = 11 ->
            [scen EXCEPT !.stage = 12]
      [] r.op = "open" /\ r.h # "cache" /\ scen.stage = 12 ->
            [scen EXCEPT !.stage = 13]
      [] r.op = "entries" /\ scen.stage = 13 ->
            [scen EXCEPT !.stage = 14, !.hit = scen.url \in r.res]
      [] OTHER -> NoScenario

InitHandles ==
    /\ conn = AllOpen
    /\ pool = IdlePool
    /\ unresolvable = {}
    /\ clock = Epoch
    /\ tz = 0
    /\ acl = EmptyTable
    /\ ret = NoHCall
    /\ cache = EmptyTable
    /\ ncalls = 0
    /\ accessed = EmptyTable
    /\ scen = NoScenario
    /\ UpdaterIdle
    /\ PipeIdle

\* a call on the cache handle: r its record, after the table its statements give
HCache(r, after) ==
    /\ ret' = r
    /\ cache' = Execute("cache", cache, after)
    /\ scen' = RoundTrip(r, None, CacheLen(cache'))
    /\ UNCHANGED <<timeVars, conn, unresolvable, pool, acl, ncalls, accessed, updVars, pipeVars>>

\* ghost: the entries as the callers know them from what add and remove
\* returned, steam_id -> the handle whose add returned True
Returned(r) ==
    CASE r.exc = None /\ r.op = "add" /\ r.res = TRUE -> Extend(accessed, r.key, r.h)
      [] r.exc = None /\ r.op = "remove" /\ r.res = TRUE ->
            Restrict(accessed, DOMAIN accessed \ {r.key})
      [] OTHER -> accessed

\* a call on an access-list handle
HAcl(r, name, after) ==
    /\ ret' = r
    /\ acl' = Execute(r.h, acl, after)
    /\ scen' = RoundTrip(r, name, AclLen(acl'))
    /\ accessed' = Returned(r)
    /\ UNCHANGED <<timeVars, conn, unresolvable, pool, cache, ncalls, updVars, pipeVars>>

HCachePut ==
    \E url \in ApiUrls, ttl \in HTtls :
        HCache(HRet("cache.put", "cache", url, Conn("cache"), None),
               CachePut(cache, url, Directory(url), ttl, clock))

HCacheGet ==
    \E url \in ApiUrls :
        LET r == CacheGet(cache, url, clock, tz)
        IN  HCache(HRet("cache.get", "cache", url, Conn("cache"),
                        r.profile), r.tbl)

HCacheRemove ==
    \E url \in ApiUrls :
        LET r == CacheRemove(cache, url)
        IN  HCache(HRet("cache.remove", "cache", url, Conn("cache"), r.res), r.tbl)

HCacheClear ==
    HCache(HRet("cache.clear", "cache", None, Conn("cache"), None), CacheClear(cache))

HCacheExpire ==
    LET r == CacheExpire(cache, clock)
    IN  HCache(HRet("cache.expire", "cache", None, Conn("cache"), r.res), r.tbl)

HCacheLen ==
    HCache(HRet("cache.len", "cache", None, Conn("cache"), CacheLen(cache)), cache)

\* is_open() reads the handle, not the connection
HCacheIsOpen ==
    /\ ret' = HRet("cache.is_open", "cache", None, None, conn["cache"])
    /\ scen' = NoScenario
    /\ UNCHANGED <<timeVars, conn, unresolvable, pool, acl, cache, ncalls, accessed, updVars, pipeVars>>

HAclAdd ==
    \E h \in AclHandles, id \in ApiIds, n \in ApiNames :
        LET r == AclAdd(acl, id, n, NoTime, NoTime, clock + tz)
        IN  HAcl(HRet("add", h, id, Conn(h), r.res), n, r.tbl)

HAclRemove ==
    \E h \in AclHandles, id \in ApiIds :
        LET r == AclRemove(acl, id)
        IN  HAcl(HRet("remove", h, id, Conn(h), r.res), None, r.tbl)

HAclFind ==
    \E h \in AclHandles, id \in ApiIds :
        HAcl(HRet("find", h, id, Conn(h), AclFind(acl, id).found), None, acl)

HAclLen ==
    \E h \in AclHandles :
        HAcl(HRet("len", h, None, Conn(h), AclLen(acl)), None, acl)

HAclEntries ==
    \E h \in AclHandles :
        HAcl(HRet("entries", h, None, Conn(h), AclEntries(acl)), None, acl)

\* close(): drops the connection; a second close finds none (cache) or a
\* closed one (access list) and does nothing
HClose ==
    \E h \in Handles :
        /\ conn' = [conn EXCEPT ![h] = FALSE]
        /\ ret' = HRet("close", h, None, None, None)
        /\ scen' = RoundTrip(ret', None, 0)
        /\ UNCHANGED <<timeVars, pool, unresolvable, acl, cache, ncalls, accessed, updVars, pipeVars>>

\* open() of the file that is there: a new connection, no CREATE TABLE
HOpen ==
    \E h \in Handles :
        /\ ~ conn[h]
        /\ conn' = [conn EXCEPT ![h] = TRUE]
        /\ ret' = HRet("open", h, None, None, None)
        /\ scen' = RoundTrip(ret', None, 0)
        /\ UNCHANGED <<timeVars, pool, unresolvable, acl, cache, ncalls, accessed, updVars, pipeVars>>

NextHandles ==
    \/ HCachePut
    \/ HCacheGet
    \/ HCacheRemove
    \/ HCacheClear
    \/ HCacheExpire
    \/ HCacheLen
    \/ HCacheIsOpen
    \/ HAclAdd
    \/ HAclRemove
    \/ HAclFind
    \/ HAclLen
    \/ HAclEntries
    \/ HClose
    \/ HOpen

SpecHandles == InitHandles /\ [][NextHandles]_vars

StoreOps == {"cache.put", "cache.get", "cache.remove", "cache.clear",
             "cache.expire", "cache.len", "add", "remove", "find", "len",
             "entries"}

\* C14: a call on a closed handle raises (AssertionError on the cache,
\* ProgrammingError on the access list) and leaves both tables as they were;
\* close() never raises and leaves the handle closed, is_open() tells whether
\* the handle is open, and only open() makes a closed handle open.
C14_UseAfterClose ==
    /\ [][(ret'.op \in StoreOps /\ ~ conn[ret'.h]) =>
            /\ ret'.exc = (IF ret'.h = "cache" THEN "AssertionError"
                                               ELSE "ProgrammingError")
            /\ cache' = cache
            /\ acl' = acl]_vars
    /\ [][ret'.op = "close" => ret'.exc = None /\ ~ conn'[ret'.h]]_vars
    /\ [][ret'.op = "cache.is_open" =>
            ret'.exc = None /\ ret'.res = conn["cache"] /\ conn' = conn]_vars
    /\ [][\A h \in Handles : (~ conn[h] /\ conn'[h]) =>
            (ret'.op = "open" /\ ret'.h = h)]_vars

C14_Witness ==
    /\ ~ conn["cache"]
    /\ ret.op = "cache.get"
    /\ ret.exc = "AssertionError"
    /\ ret.key \in DOMAIN cache

\* C15: what was written through a handle is read back after the handle is
\* closed and the file opened again: close() and open() leave both tables as
\* they are; after put(url), close, open, the cache's get(url) returns an
\* identity with the steam_id that was put and len() the count it had after the
\* put; after an add that returned True, close and open of that handle, the
\* entries read contain the steam_id and the name that were added.
C15_Durability ==
    /\ [][ret'.op \in {"close", "open"} => (cache' = cache /\ acl' = acl)]_vars
    /\ [](scen.stage \in {3, 4, 14} => scen.hit)

C15_Witness ==
    /\ scen.stage = 14
    /\ scen.hit
    /\ scen.url = <<"a2", "n2">>
    /\ acl["a2"].name = "n2"

C15_WitnessCache ==
    /\ scen.stage = 4
    /\ scen.hit
    /\ ret.res.steam_id = "a1"

\* C16: with two handles on one access-list file, every call that returns on
\* either handle sees the adds and removes that returned before it, on either
\* handle: len is the number of ids added and not removed, find tells whether
\* the id is one of them, add returns False exactly for those, remove True
\* exactly for those, and the table holds exactly one row for each of them.
C16_CrossHandle ==
    /\ [][(ret'.op \in {"add", "remove", "find", "len", "entries"}
           /\ ret'.exc = None) =>
            CASE ret'.op = "len" -> ret'.res = Cardinality(DOMAIN accessed)
              [] ret'.op = "find" -> ret'.res = (ret'.key \in DOMAIN accessed)
              [] ret'.op = "add" -> ret'.res = (ret'.key \notin DOMAIN accessed)
              [] ret'.op = "remove" -> ret'.res = (ret'.key \in DOMAIN accessed)
              [] ret'.op = "entries" ->
                    {e[1] : e \in ret'.res} = DOMAIN accessed]_vars
    /\ [](DOMAIN acl = DOMAIN accessed)

C16_Witness ==
    /\ conn["acl1"] /\ conn["acl2"]
    /\ ret.op = "add"
    /\ ret.h = "acl2"
    /\ ret.exc = None
    /\ ret.res = FALSE
    /\ ret.key \in DOMAIN accessed
    /\ accessed[ret.key] = "acl1"

(***************************************************************************)
(* C17, as stated: the steps p_resolver makes on a snapshot with a profile *)
(* it gave up on change neither the access list nor the cache.             *)
(***************************************************************************)
C17_NoStoreMutation_Original ==
    [][(r_pc' # r_pc /\ missed_profile_urls \cup missed_profile_urls' # {}) =>
            /\ acl' = acl
            /\ cache' = cache]_vars

\* C17, amended: on such a snapshot p_resolver leaves the access list as it
\* is and caches nothing for a profile it gave up on; the cache changes only
\* by the entries of the snapshot's urls that were found or resolved (put, or
\* last_seen renewed by the get) and by the sweep removing entries.
C17_PartialFailure ==
    [][(r_pc' # r_pc /\ missed_profile_urls \cup missed_profile_urls' # {}) =>
            /\ acl' = acl
            /\ \A url \in missed_profile_urls \cup missed_profile_urls' :
                    url \notin DOMAIN cache'
            /\ IF r_pc = "get"
               THEN /\ DOMAIN cache \subseteq DOMAIN cache'
                    /\ DOMAIN cache' \ DOMAIN cache \subseteq DOMAIN r_profiles'
                    /\ \A url \in DOMAIN cache \ DOMAIN r_profiles' :
                            cache'[url] = cache[url]
                    /\ \A url \in DOMAIN cache' \cap DOMAIN r_profiles' :
                            cache'[url].steam_id = r_profiles'[url].steam_id
               ELSE /\ DOMAIN cache' \subseteq DOMAIN cache
                    /\ \A url \in DOMAIN cache' : cache'[url] = cache[url]]_vars

\* a failed work unit is over: h1, resolved in it, is cached, h2, given up on,
\* is not
C17_Witness ==
    /\ r_pc = "get"
    /\ r_tag = 1
    /\ 1 \in failed
    /\ DOMAIN cache = {"h1"}
    /\ cache["h1"].steam_id = Directory("h1").steam_id

(***************************************************************************)
(* Start-up and shutdown of the workers.  p_group_poller begins with       *)
(* assert interval >= 30; p_resolver opens the cache and creates its pool  *)
(* before its try block; p_acl_updater opens the access list and runs its  *)
(* bootstrap before its try block.  SIGINT raises KeyboardInterrupt in a   *)
(* worker wherever it is: inside the try block the worker logs, runs its   *)
(* finally clause (which closes the store handle) and returns ("exited");  *)
(* outside it the exception leaves the target function ("aborted").        *)
(***************************************************************************)
Intervals == {10, 30}
MinInterval == 30

InitLifecycle ==
    /\ conn = AllOpen
    /\ pool = IdlePool
    /\ unresolvable = {}
    /\ clock = Epoch
    /\ tz = 0
    /\ ret = NoCall
    /\ cache = EmptyTable
    /\ ncalls = 0
    /\ accessed = EmptyTable
    /\ scen = NoScenario
    /\ acl_file \in {"missing", "ready"}
    /\ acl \in IF acl_file = "missing" THEN {EmptyTable}
               ELSE {[k \in {"a1", "a2"} |-> OldRow(k)]}
    /\ q_resolved_profiles = <<>>
    /\ u_pc = "start"
    /\ u_todo = {}
    /\ u_profiles = EmptyTable
    /\ u_now = NoTime
    /\ u_batch = EmptyTable
    /\ u_tag = 0
    /\ u_cycles = 0
    /\ q_group_updates = <<>>
    /\ p_pc = "start"
    /\ profile_urls = {}
    /\ num_requests = 0
    /\ p_log = "none"
    /\ lost = {}
    /\ r_pc = "start"
    /\ r_profiles = EmptyTable
    /\ missed_profile_urls = {}
    /\ r_tag = 0
    /\ r_log = "none"
    /\ failed = {}

\* assert interval >= 30, f'interval is too short ({interval} secs)'
PollerStart ==
    /\ p_pc = "start"
    /\ \E interval \in Intervals :
            IF interval >= MinInterval
            THEN p_pc' = "fetch" /\ p_log' = "starting..."
            ELSE p_pc' = "aborted" /\ p_log' = "AssertionError: interval is too short"
    /\ UNCHANGED <<timeVars, conn, unresolvable, pool, acl, cacheVars, ret, updVars, q_group_updates,
                   profile_urls, num_requests, lost, resVars>>

\* KeyboardInterrupt in p_group_poller
PollerInterrupt ==
    /\ p_pc \notin {"exited", "aborted"}
    /\ p_pc' = IF p_pc = "start" THEN "aborted" ELSE "exited"
    /\ p_log' = IF p_pc = "start" THEN "KeyboardInterrupt"
                                  ELSE "CTRL+C PRESSED -> SHUTTING DOWN..."
    /\ UNCHANGED <<timeVars, conn, unresolvable, pool, acl, cacheVars, ret, updVars, q_group_updates,
                   profile_urls, num_requests, lost, resVars>>

\* cache = SqliteSteamProfileCache.open(profile_cache_file)
ResolverOpen ==
    /\ r_pc = "start"
    /\ r_pc' = "pool"
    /\ r_log' = "starting..."
    /\ UNCHANGED <<timeVars, conn, unresolvable, pool, acl, cacheVars, ret, updVars, q_group_updates,
                   pollVars, r_profiles, missed_profile_urls, r_tag, failed>>

\* resolver_pool = Pool(G_NUM_RESOLVER_PROCESSES, init_resolve_one_worker)
ResolverPool ==
    /\ r_pc = "pool"
    /\ r_pc' = "get"
    /\ UNCHANGED <<timeVars, conn, unresolvable, pool, acl, cacheVars, ret, updVars, q_group_updates,
                   pollVars, r_profiles, missed_profile_urls, r_tag, r_log, failed>>

\* the places where p_resolver holds an open cache handle
ResolverHandleOpen == r_pc \in {"pool", "get", "put", "expire"}

\* KeyboardInterrupt in p_resolver: the try block begins after Pool(...)
ResolverInterrupt ==
    /\ r_pc \notin {"exited", "aborted"}
    /\ r_pc' = IF r_pc \in {"start", "pool"} THEN "aborted" ELSE "exited"
    /\ r_log' = IF r_pc \in {"start", "pool"} THEN "KeyboardInterrupt"
                                              ELSE "CTRL+C -> SHUTTING DOWN"
    /\ UNCHANGED <<timeVars, conn, unresolvable, pool, acl, cacheVars, ret, updVars, q_group_updates,
                   pollVars, r_profiles, missed_profile_urls, r_tag, failed>>

\* the places where p_acl_updater holds an open access-list handle
UpdaterHandleOpen ==
    u_pc \in {"init_allow", "init_deny", "get", "allow_seen", "filter",
              "update", "expire"}

\* the places of p_acl_updater outside its try block
UpdaterBootstrap == u_pc \in {"start", "create", "init_allow", "init_deny"}

\* KeyboardInterrupt in p_acl_updater: the try block begins after the bootstrap
UpdaterInterrupt ==
    /\ u_pc \notin {"exited", "aborted"}
    /\ u_pc' = IF UpdaterBootstrap THEN "aborted" ELSE "exited"
    /\ UNCHANGED <<timeVars, conn, unresolvable, pool, acl, cacheVars, ret, acl_file,
                   q_resolved_profiles, u_todo, u_profiles, u_now, u_batch,
                   u_tag, u_cycles, pipeVars>>

NextLifecycle ==
    \/ PollerStart
    \/ p_group_poller(TRUE)
    \/ PollerInterrupt
    \/ ResolverOpen
    \/ ResolverPool
    \/ p_resolver
    \/ ResolverInterrupt
    \/ p_acl_updater
    \/ UpdaterInterrupt

SpecLifecycle == InitLifecycle /\ [][NextLifecycle]_vars

\* p_acl_updater has written for some member of the batch it is working on
\* and has not run the expire of that cycle
HalfApplied ==
    \/ u_pc = "update" /\ DOMAIN u_profiles \ u_todo # {}
    \/ u_pc = "expire" /\ DOMAIN u_profiles # {}

\* C18: when KeyboardInterrupt ends p_acl_updater, the access list is not left
\* with members of the current batch added or refreshed and the expire of that
\* cycle not run.
C18_NoHalfCycle ==
    [][(u_pc' \in {"exited", "aborted"} /\ u_pc' # u_pc) => ~ HalfApplied]_vars

\* C19: a worker that KeyboardInterrupt reaches while it holds an open store
\* handle (p_acl_updater from its bootstrap on, p_resolver from its pool
\* set-up on) closes the handle before it exits: it leaves through its
\* finally clause, never by the exception leaving the function.
C19_CancelCloses ==
    [][/\ (u_pc' = "aborted" /\ u_pc # "aborted") => ~ UpdaterHandleOpen
       /\ (r_pc' = "aborted" /\ r_pc # "aborted") => ~ ResolverHandleOpen]_vars

Rejected == p_log = "AssertionError: interval is too short"

\* C20: once the poller has rejected an interval below 30 it has made no
\* request and put no snapshot on the queue, and the other workers do not go
\* on with their work: the only step left to them is to shut down.
C20_IntervalFloor ==
    /\ [](Rejected => (num_requests = 0 /\ q_group_updates = <<>>))
    /\ [][Rejected =>
            /\ u_pc' # u_pc => u_pc' \in {"exited", "aborted"}
            /\ r_pc' # r_pc => r_pc' \in {"exited", "aborted"}]_vars

\* C21: every entry of the access list has last_seen >= added_on, after any
\* calls of add, update_last_seen, remove and expire.
C21_TimeInvariant ==
    \A k \in DOMAIN acl :
        ConvertTimestamp(acl[k].last_seen) >= ConvertTimestamp(acl[k].added_on)

(***************************************************************************)
(* C22: with p_resolver and p_acl_updater scheduled fairly and nobody      *)
(* cancelled, every snapshot put on q_group_updates is taken by p_resolver *)
(* and its work unit comes to its end, p_resolver waiting for the next     *)
(* snapshot again; at that end the unit was disqualified or its batch was  *)
(* put on q_resolved_profiles.                                             *)
(***************************************************************************)
C22_SnapshotProcessed ==
    /\ \A t \in 1..MaxPolls :
            (\E i \in 1..Len(q_group_updates) : q_group_updates[i].tag = t)
                ~> (r_tag = t /\ r_pc = "get")
    /\ (r_pc # "get") ~> (r_pc = "get")
    /\ [][(r_pc = "expire" /\ r_pc' = "get") =>
            \/ r_tag \in failed
            \/ \E i \in 1..Len(q_resolved_profiles) :
                    q_resolved_profiles[i].tag = r_tag
            \/ u_tag = r_tag]_vars

\* the first snapshot was resolved and handed on, the second was discarded,
\* and p_resolver waits for the next
C22_Witness ==
    /\ r_pc = "get"
    /\ r_tag = 2
    /\ 2 \in failed
    /\ 1 \notin failed
    /\ u_tag = 1
    /\ q_group_updates = <<>>

(***************************************************************************)
(* p_resolver against a reconciler that does not take batches from         *)
(* q_resolved_profiles; p_group_poller and p_resolver run whenever they    *)
(* can.                                                                    *)
(***************************************************************************)
SpecStall ==
    /\ Init
    /\ [][NextPollerLive]_vars
    /\ WF_vars(p_group_poller(FALSE))
    /\ WF_vars(p_resolver)

\* C23: a put on q_resolved_profiles that finds the queue full does not wait
\* for ever: p_resolver leaves the put (after a timeout, with an alert).
C23_StallBounded ==
    (r_pc = "put" /\ Len(q_resolved_profiles) >= QueueSize) ~> (r_pc # "put")

\* C24: no lookup runs its query against an access-list file whose table
\* does not exist yet: whenever the lookup service looks an id up, the store
\* has been created in full.
C24_LookupAfterCreate ==
    [][(ret' # ret /\ ret'.op = "GET" /\ ret'.name = "/" /\ ret'.key # NoSteamID)
        => acl_file = "ready"]_vars

(***************************************************************************)
(* Opening and creating the access-list file through the API, one call at  *)
(* a time (as test/test_sqlite.py does).  acl_file is "missing", "ready"   *)
(* (file and table) or "created" (a file without the table: here a file    *)
(* something else wrote).                                                  *)
(***************************************************************************)
\* a create() without its isfile check
AclCreateOverwrites(file, tbl) ==
    [exc |-> None, file |-> "ready", tbl |-> EmptyTable, opened |-> TRUE]

\* create(dbfile): FileExistsError, or connect and CREATE TABLE
AclCreate(file, tbl) ==
    IF file # "missing"
    THEN [exc |-> "FileExistsError", file |-> file, tbl |-> tbl, opened |-> FALSE]
    ELSE [exc |-> None, file |-> "ready", tbl |-> EmptyTable, opened |-> TRUE]

\* open(dbfile, create)
AclOpen(file, tbl, create) ==
    IF file # "missing"
    THEN [exc |-> None, file |-> file, tbl |-> tbl, opened |-> TRUE]
    ELSE IF create THEN AclCreate(file, tbl)
    ELSE [exc |-> "FileNotFoundError", file |-> file, tbl |-> tbl, opened |-> FALSE]

\* a call that returns a new handle h, or raises
FReturn(op, h, r) ==
    /\ ret' = HRet(op, h, None, r.exc, None)
    /\ acl_file' = r.file
    /\ acl' = r.tbl
    /\ conn' = IF r.opened THEN [conn EXCEPT ![h] = TRUE] ELSE conn
    /\ UNCHANGED <<timeVars, pool, unresolvable, cacheVars, q_resolved_profiles, u_pc, u_todo,
                   u_profiles, u_now, u_batch, u_tag, u_cycles, pipeVars>>

FCreate ==
    \E h \in AclHandles :
        /\ ~ conn[h]
        /\ FReturn("create", h, AclCreate(acl_file, acl))

FOpen ==
    \E h \in AclHandles, create \in BOOLEAN :
        /\ ~ conn[h]
        /\ FReturn(IF create THEN "open" ELSE "open_nocreate", h,
                   AclOpen(acl_file, acl, create))

\* os.unlink(dbfile), with no handle open on it
FUnlink ==
    /\ acl_file # "missing"
    /\ \A h \in AclHandles : ~ conn[h]
    /\ ret' = HRet("unlink", None, None, None, None)
    /\ acl_file' = "missing"
    /\ acl' = EmptyTable
    /\ UNCHANGED <<timeVars, conn, unresolvable, pool, cacheVars, q_resolved_profiles, u_pc, u_todo,
                   u_profiles, u_now, u_batch, u_tag, u_cycles, pipeVars>>

\* with open(db, 'w') as f: f.write('stuff')
FWrite ==
    /\ acl_file = "missing"
    /\ ret' = HRet("write", None, None, None, None)
    /\ acl_file' = "created"
    /\ UNCHANGED <<timeVars, conn, unresolvable, pool, acl, cacheVars, q_resolved_profiles, u_pc,
                   u_todo, u_profiles, u_now, u_batch, u_tag, u_cycles, pipeVars>>

\* calls on the handles of a store that has its table
FUse ==
    /\ acl_file = "ready"
    /\ \/ HAclAdd
       \/ HAclRemove
       \/ HAclLen

FClose ==
    \E h \in AclHandles :
        /\ conn' = [conn EXCEPT ![h] = FALSE]
        /\ ret' = HRet("close", h, None, None, None)
        /\ UNCHANGED <<timeVars, pool, unresolvable, acl, cacheVars, updVars, pipeVars>>

InitOpen ==
    /\ conn = [h \in Handles |-> FALSE]
    /\ pool = IdlePool
    /\ unresolvable = {}
    /\ clock = Epoch
    /\ tz = 0
    /\ acl = EmptyTable
    /\ ret = NoHCall
    /\ cache = EmptyTable
    /\ ncalls = 0
    /\ accessed = EmptyTable
    /\ scen = NoScenario
    /\ acl_file = "missing"
    /\ q_resolved_profiles = <<>>
    /\ u_pc = "start"
    /\ u_todo = {}
    /\ u_profiles = EmptyTable
    /\ u_now = NoTime
    /\ u_batch = EmptyTable
    /\ u_tag = 0
    /\ u_cycles = 0
    /\ PipeIdle

NextOpen ==
    \/ FCreate
    \/ FOpen
    \/ FUnlink
    \/ FWrite
    \/ FUse
    \/ FClose

SpecOpen == InitOpen /\ [][NextOpen]_vars

\* C25: create raises FileExistsError and changes nothing when the file
\* exists, and otherwise leaves a store with its table and returns an open
\* handle; open with create=False raises FileNotFoundError when the file is
\* missing; open creates the store when the file is missing; open of a file
\* that exists returns an open handle, raises nothing and changes nothing.
C25_OpenCreate ==
    [][/\ ret'.op = "create" =>
            IF acl_file # "missing"
            THEN /\ ret'.exc = "FileExistsError"
                 /\ acl_file' = acl_file /\ acl' = acl /\ conn' = conn
            ELSE /\ ret'.exc = None
                 /\ acl_file' = "ready" /\ acl' = EmptyTable /\ conn'[ret'.h]
       /\ (ret'.op = "open_nocreate" /\ acl_file = "missing") =>
            /\ ret'.exc = "FileNotFoundError"
            /\ acl_file' = "missing" /\ conn' = conn
       /\ (ret'.op = "open" /\ acl_file = "missing") =>
            /\ ret'.exc = None
            /\ acl_file' = "ready" /\ acl' = EmptyTable /\ conn'[ret'.h]
       /\ (ret'.op \in {"open", "open_nocreate"} /\ acl_file # "missing") =>
            /\ ret'.exc = None
            /\ acl_file' = acl_file /\ acl' = acl /\ conn'[ret'.h]]_vars

C25_Witness ==
    /\ ret.op = "create"
    /\ ret.exc = "FileExistsError"
    /\ acl_file = "ready"
    /\ acl # EmptyTable
    /\ ~ conn[ret.h]

(***************************************************************************)
(* C26: remove returns True iff an entry with that steam_id existed, and   *)
(* then deletes exactly that entry: find returns None for it, the number   *)
(* of entries drops by one and every other entry is unchanged.  On a       *)
(* missing steam_id it returns False and changes nothing, so a remove that *)
(* follows a remove of the same steam_id returns False.                    *)
(***************************************************************************)
C26_RemoveExact ==
    [][ret'.op = "remove" =>
        LET id == ret'.key
        IN  /\ ret'.res = (id \in DOMAIN acl)
            /\ id \in DOMAIN acl =>
                    /\ ~ AclFind(acl', id).found
                    /\ AclLen(acl') = AclLen(acl) - 1
                    /\ \A k \in DOMAIN acl \ {id} :
                            k \in DOMAIN acl' /\ acl'[k] = acl[k]
            /\ id \notin DOMAIN acl => acl' = acl
            /\ (ret.op = "remove" /\ ret.key = id) => ret'.res = FALSE]_vars

\* a remove that deleted one entry of two
C26_Witness ==
    /\ ret.op = "remove"
    /\ ret.res = TRUE
    /\ ret.key \notin DOMAIN acl
    /\ acl # EmptyTable

(***************************************************************************)
(* C27: the sweep of the Identity Cache deletes exactly the entries for    *)
(* which now >= last_seen + ttl, each entry judged by its own last_seen    *)
(* and ttl as stored, leaves every other entry as it was, and returns the  *)
(* number of entries it deleted.                                           *)
(***************************************************************************)
C27_SweepExact ==
    [][ret'.op = "cache.expire" =>
        LET due == {k \in DOMAIN cache :
                        clock' >= ConvertTimestamp(cache[k].last_seen)
                                    + cache[k].ttl_secs}
        IN  /\ DOMAIN cache' = DOMAIN cache \ due
            /\ \A k \in DOMAIN cache' : cache'[k] = cache[k]
            /\ ret'.res = Cardinality(due)]_vars

(***************************************************************************)
(* C28: when api.members raises SteamApiError, p_group_poller puts nothing *)
(* on q_group_updates and reports nothing lost, logs the error, waits      *)
(* G_RETRY_SECS and goes straight back to fetching, not through            *)
(* sleep(interval).  It does so after every failure, however many follow   *)
(* one another: a failed fetch always leads to the next fetch.             *)
(***************************************************************************)
C28_RetryOnError ==
    /\ [][(p_pc = "fetch" /\ p_pc' = "retry") =>
            /\ q_group_updates' = q_group_updates
            /\ lost' = lost
            /\ profile_urls' = profile_urls
            /\ p_log' = "API ERROR"]_vars
    /\ [][(p_pc = "retry" /\ p_pc' # "retry") =>
            /\ p_pc' = "fetch"
            /\ q_group_updates' = q_group_updates
            /\ lost' = lost]_vars
    /\ [](p_pc \in {"fetch", "put", "sleep", "retry"})
    /\ (p_pc = "retry" ~> p_pc = "fetch")

\* a second failure in a row: two requests made, nothing put, nothing dropped
C28_Witness ==
    /\ p_pc = "retry"
    /\ num_requests = 2
    /\ p_log = "API ERROR"
    /\ q_group_updates = <<>>
    /\ lost = {}
    /\ r_tag = 0

(***************************************************************************)
(* p_resolver's work unit call by call: the cache lookups, every call of   *)
(* api.profile that the resolve_one workers make (in any order across the  *)
(* profile urls), and the loop over the results.  accessed holds, for each *)
(* profile url handed to resolver_pool.map, the answers api.profile gave   *)
(* (TRUE a profile, FALSE a SteamApiError) in the order of the calls;      *)
(* ncalls is num_outbound_requests.  The cache may start with entries      *)
(* under an older name than the one Steam answers with now.                *)
(***************************************************************************)
\* missing_profiles = [profile_url for profile_url, profile in profiles.items() if not profile]
missing_profiles_of(profiles) == {url \in DOMAIN profiles : profiles[url] = NoProfile}

\* a resolve_one whose loop goes on after a profile came back
resolve_done_exhausted(calls) == Len(calls) >= G_MAX_RESOLVE_ATTEMPTS

\* resolve_one has returned: from inside the loop with a profile, or after it
resolve_done(calls) ==
    \/ calls # <<>> /\ calls[Len(calls)]
    \/ Len(calls) >= G_MAX_RESOLVE_ATTEMPTS

\* what resolve_one returns after these answers: (profile, attempt + 1) or
\* (None, G_MAX_RESOLVE_ATTEMPTS)
resolve_result(profile_url, calls) ==
    IF calls # <<>> /\ calls[Len(calls)]
    THEN [profile |-> Directory(profile_url), attempts |-> Len(calls)]
    ELSE [profile |-> NoProfile, attempts |-> G_MAX_RESOLVE_ATTEMPTS]

RECURSIVE SumAttempts(_, _)
SumAttempts(calls, S) ==
    IF S = {} THEN 0
    ELSE LET url == CHOOSE u \in S : TRUE
         IN  resolve_result(url, calls[url]).attempts + SumAttempts(calls, S \ {url})

OldProfile(url) == SteamUserProfile(url, "Bob", Directory(url).steam_id)

OldCaches ==
    {[url \in S |-> CachePut(EmptyTable, url, OldProfile(url),
                             G_CACHE_TTL * TicksPerSec, Epoch - TicksPerSec)[url]] :
        S \in SUBSET {"h1", "h3"}}

\* profiles = {profile_url: cache.get(profile_url) for ... in q_group_updates.get()}
\* missing_profiles = [...]; resolver_pool.map(resolve_one, missing_profiles) starts
MapGet ==
    /\ r_pc = "get"
    /\ q_group_updates # <<>>
    /\ LET unit == QueueFront(q_group_updates)
           profiles == [url \in unit.urls |-> CacheGet(cache, url, clock, tz).profile]
       IN  /\ r_profiles' = profiles
           /\ cache' = [url \in DOMAIN cache |->
                            IF url \in unit.urls
                            THEN CacheGet(cache, url, clock, tz).tbl[url]
                            ELSE cache[url]]
           /\ accessed' = [url \in missing_profiles_of(profiles) |-> <<>>]
           /\ r_tag' = unit.tag
    /\ missed_profile_urls' = {}
    /\ r_pc' = "map"
    /\ q_group_updates' = QueueRest(q_group_updates)
    /\ UNCHANGED <<timeVars, conn, unresolvable, pool, acl, ret, ncalls, scen, updVars, pollVars,
                   r_log, failed>>

\* one pass of resolve_one's loop in a pool worker: api.profile(profile_url)
\* returns a profile or raises SteamApiError
WorkerAttempt ==
    /\ r_pc = "map"
    /\ \E url \in DOMAIN accessed, answer \in BOOLEAN :
            /\ url \in unresolvable => ~ answer
            /\ ~ resolve_done(accessed[url])
            /\ accessed' = [accessed EXCEPT ![url] = Append(@, answer)]
    /\ UNCHANGED <<timeVars, conn, unresolvable, pool, acl, cache, ret, ncalls, scen, updVars,
                   q_group_updates, pollVars, resVars>>

\* for profile_url, profile, num_attempts in <the results>: ...
\* if missed_profile_urls: log the warning
MapCollect ==
    /\ r_pc = "map"
    /\ \A url \in DOMAIN accessed : resolve_done(accessed[url])
    /\ pool = IdlePool
    /\ LET result == [url \in DOMAIN accessed |-> resolve_result(url, accessed[url])]
           found == {url \in DOMAIN accessed : result[url].profile # NoProfile}
       IN  /\ r_profiles' = [url \in DOMAIN r_profiles |->
                                IF url \in found THEN result[url].profile
                                                 ELSE r_profiles[url]]
           /\ cache' = [url \in DOMAIN cache \cup found |->
                            IF url \in found
                            THEN CachePut(cache, url, result[url].profile,
                                          G_CACHE_TTL * TicksPerSec, clock)[url]
                            ELSE cache[url]]
           /\ missed_profile_urls' = DOMAIN accessed \ found
           /\ ncalls' = ncalls + SumAttempts(accessed, DOMAIN accessed)
    /\ failed' = IF missed_profile_urls' # {} /\ Followed(r_tag)
                 THEN failed \cup {r_tag} ELSE failed
    /\ IF Disqualified(missed_profile_urls')
       THEN /\ r_log' = "WARNING: RESOLVE FAILED"
            /\ r_pc' = "expire"
       ELSE /\ r_log' = r_log
            /\ r_pc' = "put"
    /\ UNCHANGED <<timeVars, conn, unresolvable, pool, acl, ret, accessed, scen, updVars,
                   q_group_updates, pollVars, r_tag>>

\* the other end of q_resolved_profiles: p_acl_updater's get
EnvReceive ==
    /\ q_resolved_profiles # <<>>
    /\ u_profiles' = QueueFront(q_resolved_profiles).profiles
    /\ u_tag' = QueueFront(q_resolved_profiles).tag
    /\ q_resolved_profiles' = QueueRest(q_resolved_profiles)
    /\ UNCHANGED <<timeVars, conn, unresolvable, pool, acl, cacheVars, ret, acl_file, u_pc, u_todo,
                   u_now, u_batch, u_cycles, pipeVars>>

InitResolve ==
    /\ conn = AllOpen
    /\ pool = IdlePool
    /\ unresolvable = {}
    /\ clock = Epoch + 1
    /\ tz \in TzOffsets
    /\ acl = EmptyTable
    /\ ret = NoCall
    /\ cache \in OldCaches
    /\ ncalls = 0
    /\ accessed = EmptyTable
    /\ scen = NoScenario
    /\ UpdaterIdle
    /\ PipeIdle

NextResolve ==
    \/ EnvSnapshot
    \/ MapGet
    \/ WorkerAttempt
    \/ MapCollect
    \/ ResolverPut
    \/ ResolverExpire
    \/ EnvReceive

SpecResolve == InitResolve /\ [][NextResolve]_vars

(***************************************************************************)
(* C29: every profile url that missed the cache gets at least one and at   *)
(* most G_MAX_RESOLVE_ATTEMPTS calls of api.profile in its work unit; no   *)
(* call follows a call that returned a profile; the url is in              *)
(* missed_profile_urls exactly when G_MAX_RESOLVE_ATTEMPTS calls were made *)
(* and all of them raised; num_outbound_requests grows by the calls made.  *)
(***************************************************************************)
C29_RetryBound ==
    /\ [](\A url \in DOMAIN accessed :
            /\ Len(accessed[url]) <= G_MAX_RESOLVE_ATTEMPTS
            /\ \A i \in 1..(Len(accessed[url]) - 1) : ~ accessed[url][i])
    /\ [][(r_pc = "get" /\ r_pc' = "map") =>
            /\ DOMAIN accessed' = QueueFront(q_group_updates).urls \ DOMAIN cache
            /\ \A url \in DOMAIN accessed' : accessed'[url] = <<>>]_vars
    /\ [][(r_pc = "map" /\ r_pc' # "map") =>
            /\ accessed' = accessed
            /\ \A url \in DOMAIN accessed :
                /\ Len(accessed[url]) >= 1
                /\ url \in missed_profile_urls' <=>
                        /\ Len(accessed[url]) = G_MAX_RESOLVE_ATTEMPTS
                        /\ \A i \in 1..G_MAX_RESOLVE_ATTEMPTS : ~ accessed[url][i]
                /\ resolve_result(url, accessed[url]) \in resolve_one(url)
            /\ ncalls' = ncalls + SumAttempts(accessed, DOMAIN accessed)]_vars
    /\ [][(r_pc = "map" /\ r_pc' = "map") =>
            DOMAIN accessed' = DOMAIN accessed]_vars

\* h1 answered at the third call, h2 failed three times: four calls raised
\* and one returned, h2 alone is missing
C29_Witness ==
    /\ r_pc = "expire"
    /\ DOMAIN accessed = {"h1", "h2"}
    /\ accessed["h1"] = <<FALSE, FALSE, TRUE>>
    /\ accessed["h2"] = <<FALSE, FALSE, FALSE>>
    /\ missed_profile_urls = {"h2"}
    /\ ncalls = 6
    /\ "h1" \in DOMAIN cache

(***************************************************************************)
(* C30: a profile url of the snapshot that has an entry in the cache when  *)
(* p_resolver looks it up is not handed to resolve_one, so api.profile is  *)
(* not called for it in that work unit; its profile in the batch is the    *)
(* one the cache holds; the entry's last_seen is set to the time of the    *)
(* lookup, on the clock the cache keeps its times by, and nothing else of  *)
(* the entry changes.  api.profile is called only for the urls the lookup  *)
(* missed.                                                                 *)
(***************************************************************************)
C30_CacheHit ==
    /\ [][(r_pc = "get" /\ r_pc' = "map") =>
            \A url \in QueueFront(q_group_updates).urls \cap DOMAIN cache :
                /\ url \notin DOMAIN accessed'
                /\ r_profiles'[url] =
                        SteamUserProfile(url, cache[url].name, cache[url].steam_id)
                /\ cache'[url] =
                        [cache[url] EXCEPT !.last_seen = AdaptDatetime(clock)]]_vars
    /\ [][(r_pc = "map" /\ accessed' # accessed) =>
            /\ DOMAIN accessed' = DOMAIN accessed
            /\ \A url \in DOMAIN accessed :
                    accessed'[url] # accessed[url] => r_profiles[url] = NoProfile]_vars
    /\ [](r_pc \in {"map", "put", "expire"} =>
            \A url \in DOMAIN r_profiles \ DOMAIN accessed :
                /\ url \in DOMAIN cache
                /\ r_profiles[url] =
                        SteamUserProfile(url, cache[url].name, cache[url].steam_id))
    /\ [][(r_pc = "put" /\ r_pc' # "put") =>
            q_resolved_profiles' =
                Append(q_resolved_profiles, [profiles |-> r_profiles, tag |-> r_tag])]_vars

(***************************************************************************)
(* C31: the profiles p_resolver works on are keyed by exactly the profile  *)
(* urls of the snapshot it took, from the lookup to the end of the work    *)
(* unit; whatever is added to q_resolved_profiles is that dictionary, put  *)
(* by p_resolver when every url has a profile and every resolve_one has    *)
(* returned; no batch on the queue or received maps a url to None.         *)
(***************************************************************************)
C31_BatchComplete ==
    /\ [][(r_pc = "get" /\ r_pc' # "get") =>
            /\ DOMAIN r_profiles' = QueueFront(q_group_updates).urls
            /\ r_tag' = QueueFront(q_group_updates).tag]_vars
    /\ [][(r_pc # "get" /\ r_pc' # "get") =>
            /\ DOMAIN r_profiles' = DOMAIN r_profiles
            /\ r_tag' = r_tag]_vars
    /\ [][Len(q_resolved_profiles') > Len(q_resolved_profiles) =>
            /\ r_pc = "put"
            /\ q_resolved_profiles' =
                Append(q_resolved_profiles, [profiles |-> r_profiles, tag |-> r_tag])
            /\ \A url \in DOMAIN r_profiles : r_profiles[url] # NoProfile
            /\ \A url \in DOMAIN accessed :
                    /\ url \in DOMAIN r_profiles
                    /\ resolve_done(accessed[url])
                    /\ r_profiles[url] = resolve_result(url, accessed[url]).profile]_vars
    /\ [](/\ \A i \in 1..Len(q_resolved_profiles) :
                \A url \in DOMAIN q_resolved_profiles[i].profiles :
                    q_resolved_profiles[i].profiles[url] # NoProfile
          /\ \A url \in DOMAIN u_profiles : u_profiles[url] # NoProfile)

\* the batch of {h1, h2}: h1 answered at the third call, h2 at the first
C31_Witness ==
    /\ Len(q_resolved_profiles) = 1
    /\ DOMAIN q_resolved_profiles[1].profiles = {"h1", "h2"}
    /\ q_resolved_profiles[1].tag = r_tag
    /\ DOMAIN accessed = {"h1", "h2"}
    /\ accessed["h1"] = <<FALSE, FALSE, TRUE>>
    /\ accessed["h2"] = <<TRUE>>
    /\ q_resolved_profiles[1].profiles["h1"] = Directory("h1")

(***************************************************************************)
(* resolver_pool = Pool(G_NUM_RESOLVER_PROCESSES, ...): map() queues one   *)
(* task per profile url; a worker process takes a task when it is idle,    *)
(* runs resolve_one for it (one api.profile call at a time) and hands the  *)
(* result back.  The first snapshot has more profile urls than the pool    *)
(* has workers.                                                            *)
(***************************************************************************)
BigRoster == {"h1", "h2", "h3", "h4", "h5"}

\* a pool that starts a worker for every task
HasIdleWorkerAlways(p) == TRUE

\* one of the G_NUM_RESOLVER_PROCESSES workers has no task
HasIdleWorker(p) == Cardinality(DOMAIN p) < G_NUM_RESOLVER_PROCESSES

\* the api.profile calls in flight
InFlight == {url \in DOMAIN pool : pool[url]}

\* the tasks no worker has taken yet
Waiting == {url \in DOMAIN accessed \ DOMAIN pool : accessed[url] = <<>>}

\* an idle worker takes the next task of the task queue (the tasks are queued
\* in the order of missing_profiles) and resolve_one makes its first call of
\* api.profile
WorkerTake ==
    /\ r_pc = "map"
    /\ HasIdleWorker(pool)
    /\ Waiting # {}
    /\ pool' = Extend(pool, CHOOSE url \in Waiting : TRUE, TRUE)
    /\ UNCHANGED <<timeVars, conn, unresolvable, acl, cacheVars, ret, updVars, pipeVars>>

\* resolve_one: the next pass of the loop, api.profile(profile_url) is called again
WorkerCall ==
    /\ \E url \in DOMAIN pool :
            /\ ~ pool[url]
            /\ pool' = [pool EXCEPT ![url] = TRUE]
    /\ UNCHANGED <<timeVars, conn, unresolvable, acl, cacheVars, ret, updVars, pipeVars>>

\* resolve_one: api.profile returns a profile or raises SteamApiError; when
\* resolve_one returns, its result goes back to map() and the worker is idle
WorkerAnswer ==
    /\ \E url \in DOMAIN pool, answer \in BOOLEAN :
            /\ url \in unresolvable => ~ answer
            /\ pool[url]
            /\ accessed' = [accessed EXCEPT ![url] = Append(@, answer)]
            /\ pool' = IF resolve_done(accessed'[url])
                       THEN Restrict(pool, DOMAIN pool \ {url})
                       ELSE [pool EXCEPT ![url] = FALSE]
    /\ UNCHANGED <<timeVars, conn, unresolvable, acl, cache, ret, ncalls, scen, updVars, pipeVars>>

InitPool ==
    /\ conn = AllOpen
    /\ pool = IdlePool
    /\ unresolvable = {}
    /\ clock = Epoch + 1
    /\ tz = 0
    /\ acl = EmptyTable
    /\ ret = NoCall
    /\ cache = EmptyTable
    /\ ncalls = 0
    /\ accessed = EmptyTable
    /\ scen = NoScenario
    /\ UpdaterIdle
    /\ q_group_updates = <<[urls |-> BigRoster, tag |-> 1]>>
    /\ p_pc = "sleep"
    /\ profile_urls = BigRoster
    /\ num_requests = 1
    /\ p_log = "members found and sent for update"
    /\ lost = {}
    /\ r_pc = "get"
    /\ r_profiles = EmptyTable
    /\ missed_profile_urls = {}
    /\ r_tag = 0
    /\ r_log = "starting..."
    /\ failed = {}

NextPool ==
    \/ EnvSnapshot
    \/ MapGet
    \/ WorkerTake
    \/ WorkerCall
    \/ WorkerAnswer
    \/ MapCollect
    \/ ResolverPut
    \/ ResolverExpire
    \/ EnvReceive

SpecPool == InitPool /\ [][NextPool]_vars

(***************************************************************************)
(* C32: at every moment at most G_NUM_RESOLVER_PROCESSES api.profile calls *)
(* are in flight, whatever the size of the snapshot, in every work unit;   *)
(* no call is in flight outside resolver_pool.map.                         *)
(***************************************************************************)
C32_BoundedConcurrency ==
    /\ Cardinality(InFlight) <= G_NUM_RESOLVER_PROCESSES
    /\ r_pc # "map" => InFlight = {}

\* every worker has a call in flight and a fifth profile url waits for a worker
C32_Witness ==
    /\ Cardinality(InFlight) = G_NUM_RESOLVER_PROCESSES
    /\ Waiting # {}

(***************************************************************************)
(* C33: in a cycle of p_acl_updater with timestamp now, take a steam id of *)
(* the batch that is in neither auto_allow nor auto_deny.  Its entry is    *)
(* not touched before the add/update loop; the loop changes the store only *)
(* by inserting such an id that has no entry, under the batch's name and   *)
(* with added_on = last_seen = now, or by setting last_seen = now on the   *)
(* entry of such an id, added_on and name unchanged; when the loop is done *)
(* every such id has an entry with last_seen = now; the sweep leaves these *)
(* entries as they are, so they are there after the cycle.                 *)
(***************************************************************************)
DynamicIds ==
    BatchIds(u_batch) \ ({auto_allow[n] : n \in DOMAIN auto_allow}
                         \cup {auto_deny[n] : n \in DOMAIN auto_deny})

C33_AddRefresh ==
    /\ [][(u_pc \in {"allow_seen", "filter"}) =>
            \A id \in DynamicIds :
                /\ (id \in DOMAIN acl) = (id \in DOMAIN acl')
                /\ id \in DOMAIN acl => acl'[id] = acl[id]]_vars
    /\ [][(u_pc = "update" /\ acl' # acl) =>
            \E url \in DOMAIN u_batch :
                LET id == u_batch[url].steam_id
                IN  /\ id \in DynamicIds
                    /\ IF id \in DOMAIN acl
                       THEN acl' = [acl EXCEPT ![id].last_seen = AdaptDatetime(u_now)]
                       ELSE acl' = Extend(acl, id,
                                     [name      |-> u_batch[url].name,
                                      added_on  |-> AdaptDatetime(u_now),
                                      last_seen |-> AdaptDatetime(u_now)])]_vars
    /\ [](u_pc = "expire" =>
            \A id \in DynamicIds :
                id \in DOMAIN acl /\ acl[id].last_seen = AdaptDatetime(u_now))
    /\ [][u_pc = "expire" =>
            \A id \in DynamicIds : id \in DOMAIN acl' /\ acl'[id] = acl[id]]_vars
    /\ []((u_pc = "get" /\ u_cycles >= 1) =>
            \A id \in DynamicIds :
                id \in DOMAIN acl /\ acl[id].last_seen = AdaptDatetime(u_now))

\* a1 was inserted by the first cycle and refreshed by the second
C33_Witness ==
    /\ u_pc = "get"
    /\ u_cycles = 2
    /\ "a1" \in DynamicIds
    /\ "a1" \in DOMAIN acl
    /\ acl["a1"].name = "n1"
    /\ acl["a1"].last_seen = AdaptDatetime(u_now)
    /\ TextLess(acl["a1"].added_on, acl["a1"].last_seen)

(***************************************************************************)
(* The pipeline from the roster snapshots on, with Steam in one of two     *)
(* conditions for the whole run: every profile resolves sooner or later,   *)
(* or the profiles in Unresolvable raise SteamApiError at every call.      *)
(* Every roster has a profile url in Unresolvable, and the cache starts    *)
(* empty.                                                                  *)
(***************************************************************************)
Unresolvable == {"h2", "h3"}

InitStuck ==
    /\ conn = AllOpen
    /\ pool = IdlePool
    /\ unresolvable \in {{}, Unresolvable}
    /\ clock = Epoch
    /\ tz = 0
    /\ ret = NoCall
    /\ cache = EmptyTable
    /\ ncalls = 0
    /\ accessed = EmptyTable
    /\ scen = NoScenario
    /\ acl_file \in {"missing", "ready"}
    /\ acl \in IF acl_file = "missing" THEN {EmptyTable}
               ELSE {[k \in {"a1", "a2"} |-> OldRow(k)]}
    /\ q_resolved_profiles = <<>>
    /\ u_pc = "start"
    /\ u_todo = {}
    /\ u_profiles = EmptyTable
    /\ u_now = NoTime
    /\ u_batch = EmptyTable
    /\ u_tag = 0
    /\ u_cycles = 0
    /\ PipeIdle

SpecStuck == InitStuck /\ [][NextDelivery]_vars

(***************************************************************************)
(* C34: while every snapshot has a profile url that is not cached and that *)
(* api.profile fails for at every call, every work unit of p_resolver is   *)
(* disqualified, nothing is ever put on q_resolved_profiles, p_acl_updater *)
(* never receives a batch nor completes a cycle, and once its              *)
(* initialization is done the store never changes: an entry of someone no  *)
(* longer on the roster stays, and nobody is added.                        *)
(***************************************************************************)
C34_Stalled ==
    /\ [](unresolvable # {} =>
            /\ q_resolved_profiles = <<>>
            /\ r_pc # "put"
            /\ u_tag = 0
            /\ u_cycles = 0
            /\ u_pc \in {"start", "create", "init_allow", "init_deny", "get"}
            /\ \A t \in 1..MaxPolls : t <= r_tag => t \in failed
            /\ DOMAIN cache \cap unresolvable = {})
    /\ [][(unresolvable # {} /\ u_pc = "get") => acl' = acl]_vars
    /\ [][unresolvable' = unresolvable]_vars

\* two snapshots were taken and given up on (h1 of the first was resolved and
\* cached); the store has the entry an earlier run left for a1 and the
\* auto-allow entries, and no cycle has run
C34_Witness ==
    /\ unresolvable = Unresolvable
    /\ r_pc = "get"
    /\ r_tag = 2
    /\ failed = {1, 2}
    /\ "h1" \in DOMAIN cache
    /\ u_pc = "get"
    /\ u_cycles = 0
    /\ DOMAIN acl = {"a1", "a3", "a4"}
    /\ acl["a1"].name = "old"

(***************************************************************************)
(* p_acl_updater given the same resolved batch again and again (the roster *)
(* does not change), each cycle at a later time than the one before.  The  *)
(* store starts with rows an earlier run left; the local clock may have    *)
(* been set back by a second or more since a row was written (the          *)
(* timestamps are naive local datetimes), so a row may be stamped later    *)
(* than now.                                                               *)
(***************************************************************************)
SkewRow(steam_id) == AclRow("old", Epoch - 3, Epoch + TicksPerSec)

SkewTables ==
    {[k \in S |-> IF k \in A THEN SkewRow(k) ELSE OldRow(k)] :
        S \in SUBSET SteamIDs, A \in SUBSET SteamIDs}

InitIdem ==
    /\ conn = AllOpen
    /\ pool = IdlePool
    /\ unresolvable = {}
    /\ clock = Epoch
    /\ tz = 0
    /\ ret = NoCall
    /\ cache = EmptyTable
    /\ ncalls = 0
    /\ accessed = EmptyTable
    /\ scen = NoScenario
    /\ acl_file \in {"missing", "ready"}
    /\ acl \in IF acl_file = "missing" THEN {EmptyTable} ELSE SkewTables
    /\ q_resolved_profiles = <<>>
    /\ u_pc = "start"
    /\ u_todo = {}
    /\ u_profiles = EmptyTable
    /\ u_now = NoTime
    /\ u_batch = EmptyTable
    /\ u_tag = 0
    /\ u_cycles = 0
    /\ PipeIdle

\* the resolver's side of the queue: any batch the first time, the batch
\* p_acl_updater received last from then on
EnvRepeat ==
    /\ q_resolved_profiles = <<>>
    /\ \E urls \in SUBSET Urls :
            /\ u_now # NoTime => Batch(urls) = u_batch
            /\ q_resolved_profiles' = <<[profiles |-> Batch(urls), tag |-> 0]>>
    /\ UNCHANGED <<timeVars, conn, pool, unresolvable, acl, acl_file, cacheVars, ret,
                   u_pc, u_todo, u_profiles, u_now, u_batch, u_tag, u_cycles, pipeVars>>

NextIdem ==
    \/ p_acl_updater
    \/ EnvRepeat

SpecIdem == InitIdem /\ [][NextIdem]_vars

\* the steam ids of the store, each with its name and added_on
Entries(tbl) ==
    [steam_id \in DOMAIN tbl |->
        [name |-> tbl[steam_id].name, added_on |-> tbl[steam_id].added_on]]

(***************************************************************************)
(* C35: once a cycle for a batch is complete, running the cycle again for  *)
(* the same batch at the same or a later time leaves the steam ids of the  *)
(* store, their names and their added_on as they are.  (A cycle deletes    *)
(* only in its last step, so the store after the second cycle differs in   *)
(* these from the store before it exactly when some step of the cycle      *)
(* changes them.)                                                          *)
(***************************************************************************)
C35_Idempotent ==
    [][u_cycles >= 1 => Entries(acl') = Entries(acl)]_vars

\* the steam ids a cycle keeps: those of the batch as received and the
\* auto-allow ids
CycleIds ==
    BatchIds(u_batch) \cup {auto_allow[n] : n \in DOMAIN auto_allow}

(***************************************************************************)
(* C36: from the moment p_acl_updater has taken a batch to the end of the  *)
(* cycle's sweep, no step removes the entry of a steam id that is in the   *)
(* batch or an auto-allow id (so an entry held before the cycle is held in *)
(* every store state of the cycle and is never removed and added again),   *)
(* and a lookup of such an id made between two steps of the cycle is       *)
(* answered with status 200 and allowed = "1".                             *)
(***************************************************************************)
C36_Continuous ==
    /\ [][(u_pc \in {"allow_seen", "filter", "update", "expire"}) =>
            \A id \in CycleIds \cap DOMAIN acl : id \in DOMAIN acl']_vars
    /\ [][(/\ u_pc \in {"allow_seen", "filter", "update", "expire"}
           /\ ret' # ret
           /\ ret'.op = "GET"
           /\ ret'.name = "/"
           /\ ret'.key \in CycleIds \cap DOMAIN acl)
            => /\ ret'.ts = 200
               /\ ret'.res = "1"]_vars

C36_Witness ==
    /\ u_pc = "expire"
    /\ "a1" \in BatchIds(u_batch)
    /\ "a1" \in DOMAIN acl
    /\ acl["a1"].name = "old"
    /\ acl["a1"].last_seen = AdaptDatetime(u_now)
    /\ ret.op = "GET"
    /\ ret.key = "a1"
    /\ ret.res = "1"

\* the names the roster carries for a steam id
RosterNames(steam_id) ==
    {Directory(url).name : url \in {u \in Urls : Directory(u).steam_id = steam_id}}

(***************************************************************************)
(* C37: no step of p_acl_updater changes the name of an entry that is in   *)
(* the store before and after the step, whatever name the batch carries    *)
(* for its steam id; and once the initialization is done the entry of an   *)
(* auto-allow id never carries the roster's name for that id.              *)
(***************************************************************************)
C37_NameKept ==
    /\ [][\A steam_id \in DOMAIN acl \cap DOMAIN acl' :
            acl'[steam_id].name = acl[steam_id].name]_vars
    /\ [](u_pc \in {"get", "allow_seen", "filter", "update", "expire"} =>
            \A n \in DOMAIN auto_allow :
                /\ auto_allow[n] \in DOMAIN acl
                /\ acl[auto_allow[n]].name \notin RosterNames(auto_allow[n]))

C37_Witness ==
    /\ u_pc = "get"
    /\ u_cycles = 2
    /\ {"a1", "a3"} \subseteq BatchIds(u_batch)
    /\ "a1" \in DOMAIN acl
    /\ acl["a1"].name = "old"
    /\ acl["a1"].last_seen = AdaptDatetime(u_now)
    /\ acl["a3"].name = "Bob"
    /\ acl["a3"].last_seen = AdaptDatetime(u_now)

(***************************************************************************)
(* C38: a get of an entry that is in the cache with its ttl elapsed since  *)
(* the last access is a hit: it returns the identity the cache holds, sets *)
(* the entry's last_seen to the time of the get, on the clock the cache    *)
(* keeps its times by, and leaves an entry that a sweep run at that        *)
(* instant keeps.  The sweep that follows a hit, run before the ttl has    *)
(* elapsed again, does not remove the entry.                               *)
(***************************************************************************)
C38_StaleHit ==
    /\ [][\A url \in DOMAIN cache :
            (/\ ret'.op = "cache.get"
             /\ ret'.key = url
             /\ accessed' # accessed
             /\ clock' >= accessed[url] + cache[url].ttl_secs)
            => /\ ret'.res = TRUE
               /\ ret'.name = cache[url].steam_id
               /\ cache'[url] =
                    [cache[url] EXCEPT !.last_seen = AdaptDatetime(clock')]
               /\ url \in DOMAIN CacheExpire(cache', clock').tbl]_vars
    /\ [][(/\ ret.op = "cache.get"
           /\ ret.res = TRUE
           /\ ret'.op = "cache.expire"
           /\ clock' < accessed[ret.key] + cache[ret.key].ttl_secs)
            => ret.key \in DOMAIN cache']_vars

(***************************************************************************)
(* p_resolver over days: between two work units it waits in                *)
(* q_group_updates.get() for the next snapshot: no time at all, or one     *)
(* tick less than the cache's ttl, or, waiting twice, longer than the ttl. *)
(***************************************************************************)
MaxGaps == 2

Gap == G_CACHE_TTL * TicksPerSec - 1

EnvElapse ==
    /\ r_pc = "get"
    /\ q_group_updates = <<>>
    /\ clock + Gap <= Epoch + 1 + MaxGaps * Gap
    /\ clock' = clock + Gap
    /\ UNCHANGED <<tz, conn, unresolvable, pool, acl, cacheVars, ret, updVars, pipeVars>>

NextOnce ==
    \/ EnvSnapshot
    \/ EnvElapse
    \/ MapGet
    \/ WorkerAttempt
    \/ MapCollect
    \/ ResolverPut
    \/ ResolverExpire
    \/ EnvReceive

SpecOnce == InitResolve /\ [][NextOnce]_vars

(***************************************************************************)
(* C39: a profile url that has an entry in the cache (resolved from Steam  *)
(* in an earlier work unit, delivered or given up on, or left by an        *)
(* earlier run) is not resolved again as long as every snapshot consumed   *)
(* has it, however long p_resolver waited between the work units:          *)
(*  - api.profile is called in a work unit only for the urls of its        *)
(*    snapshot that had no entry when the unit began;                      *)
(*  - an entry leaves the cache only in the sweep that ends a work unit,   *)
(*    and only if the unit's snapshot did not have its url;                *)
(*  - so the urls of a delivered batch that the next snapshot has again    *)
(*    are not among those api.profile is called for in the next unit.      *)
(***************************************************************************)
C39_ResolveOnce ==
    /\ [][(r_pc = "get" /\ r_pc' = "map") =>
            /\ DOMAIN accessed' \cap DOMAIN cache = {}
            /\ DOMAIN r_profiles' \cap DOMAIN cache \subseteq DOMAIN cache']_vars
    /\ [][(r_pc = "map") => DOMAIN accessed' = DOMAIN accessed]_vars
    /\ [][\A url \in DOMAIN cache \ DOMAIN cache' :
            /\ r_pc = "expire"
            /\ url \notin DOMAIN r_profiles]_vars
    /\ [](r_tag = 2 /\ u_tag = 1 =>
            DOMAIN accessed \cap DOMAIN u_profiles = {})

C39_Witness ==
    /\ r_tag = 2
    /\ u_tag = 1
    /\ r_pc = "get"
    /\ q_group_updates = <<>>
    /\ {"h1", "h2"} \subseteq DOMAIN u_profiles
    /\ clock = Epoch + 1 + Gap
    /\ "h2" \in DOMAIN cache
    /\ cache["h2"].created_on = CurrentTimestamp(Epoch + 1)
    /\ cache["h2"].last_seen = AdaptDatetime(clock + tz)
    /\ tz < 0
    /\ ncalls = 2

====
